---- MODULE Spec2Model ----
(***************************************************************************)
(* A model of the feather HTTP router: the per-method radix trie           *)
(* (node.addRoute / node.insertChild / node.find), route registration      *)
(* (routeGroup.handle) and request dispatch (Mux.serveHTTP).               *)
(*                                                                         *)
(* Paths are TLA+ strings; Go's 0-based byte indexing and half-open slices *)
(* are kept through At and Slice, so every index expression below reads as *)
(* in the source.  A node is a record with the fields of the Go struct;    *)
(* the Go code mutates nodes through pointers while it walks down, the     *)
(* model rebuilds the same nodes bottom-up and returns, with every result, *)
(* the node as the mutations left it (also when the code panics half way). *)
(***************************************************************************)
EXTENDS Integers, Sequences, FiniteSets, TLC

\* ------------------------------------------------------------------ bytes

slashByte == "/"
paramByte == ":"
wildByte == "*"
basePath == "/"
blank == ""
WildcardParam == "*wildcard"

\* Go: s[i] (0-based); "" stands for an index out of range, which the callers test
At(s, i) == IF i >= 0 /\ i < Len(s) THEN SubSeq(s, i + 1, i + 1) ELSE ""
\* Go: s[a:b]
Slice(s, a, b) == SubSeq(s, a + 1, b)
\* Go: s[a:]
From(s, a) == SubSeq(s, a + 1, Len(s))

Min(a, b) == IF a < b THEN a ELSE b

\* strings.Index(s, sub) for a two byte sub: the first position, or -1
RECURSIVE IndexFrom(_, _, _)
IndexFrom(s, sub, i) ==
    IF i + Len(sub) > Len(s) THEN -1
    ELSE IF Slice(s, i, i + Len(sub)) = sub THEN i
    ELSE IndexFrom(s, sub, i + 1)

Index(s, sub) == IndexFrom(s, sub, 0)

\* ------------------------------------------------------------------ url.QueryUnescape

\* the printable ASCII bytes 0x20..0x7e in order; the double quote (0x22), the
\* backslash (0x5c) and the backquote (0x60) cannot be written in a TLA+ string
\* and are shown as "?"
Printable == " !?#$%&'()*+,-./0123456789:;<=>?@ABCDEFGHIJKLMNOPQRSTUVWXYZ[?]^_?abcdefghijklmnopqrstuvwxyz{|}~"
HexLower == "0123456789abcdef"
HexUpper == "0123456789ABCDEF"

\* net/url ishex / unhex: the value of a hex digit, or -1
Unhex(c) ==
    IF c = "" THEN -1
    ELSE IF Index(HexLower, c) >= 0 THEN Index(HexLower, c)
    ELSE Index(HexUpper, c)

\* the byte with the given value (printable ASCII only; the model's inputs stay in it)
CharOfByte(b) == IF b >= 32 /\ b <= 126 THEN At(Printable, b - 32) ELSE "?"

\* net/url unescape(s, encodeQueryComponent): [ok, s]
RECURSIVE UnescapeFrom(_, _)
UnescapeFrom(s, i) ==
    IF i >= Len(s) THEN [ok |-> TRUE, s |-> ""]
    ELSE LET c == At(s, i) IN
         IF c = "%"
         THEN IF i + 2 >= Len(s) \/ Unhex(At(s, i + 1)) < 0 \/ Unhex(At(s, i + 2)) < 0
              THEN [ok |-> FALSE, s |-> ""]
              ELSE LET r == UnescapeFrom(s, i + 3) IN
                   [ok |-> r.ok,
                    s |-> CharOfByte(Unhex(At(s, i + 1)) * 16 + Unhex(At(s, i + 2))) \o r.s]
         ELSE LET r == UnescapeFrom(s, i + 1) IN
              [ok |-> r.ok, s |-> (IF c = "+" THEN " " ELSE c) \o r.s]

QueryUnescape(s) == UnescapeFrom(s, 0)

\* ------------------------------------------------------------------ strings.ToLower

UpperCase == "ABCDEFGHIJKLMNOPQRSTUVWXYZ"
LowerCase == "abcdefghijklmnopqrstuvwxyz"

LowerChar(c) == IF Index(UpperCase, c) >= 0 THEN At(LowerCase, Index(UpperCase, c)) ELSE c

RECURSIVE ToLowerFrom(_, _)
ToLowerFrom(s, i) == IF i >= Len(s) THEN "" ELSE LowerChar(At(s, i)) \o ToLowerFrom(s, i + 1)

ToLower(s) == ToLowerFrom(s, 0)

\* ------------------------------------------------------------------ node

\* nodeType: the zero value (a plain node) and the three declared constants
static == 0
isRoot == 1
hasParams == 2
matchesAny == 3

\* handler 0 is Go's nil
NewNode == [path |-> "", indices |-> "", children |-> <<>>, handler |-> 0,
            priority |-> 0, nType |-> static, wildChild |-> FALSE]

\* the panics of the registration code, and the Go runtime's own
ErrNone == ""
ErrDuplicateParam == "duplicate param name"
ErrOneWildcard == "only one wildcard per path segment is allowed"
ErrWildcardChildren == "wildcard route conflicts with existing children"
ErrEmptyName == "wildcards must be named with a non-empty name"
ErrAfterStar == "character after the * symbol is not permitted"
ErrCatchAllRoot == "catch-all conflicts with existing handle for the path segment root"
ErrNoSlash == "no / before catch-all"
ErrWildcardConflict == "path segment conflicts with existing wildcard"
ErrDuplicateRoute == "handlers are already registered for path"
ErrUnescape == "Query Unescape Error on path"
ErrTooManyParams == "too many parameters defined in path, max is 255"
ErrDoubleSlash == "Bad path contains duplicate //"
ErrRuntime == "runtime error: index out of range"

\* a registration step's outcome: the node as the step left it, and the panic (if any)
Res(n, err) == [n |-> n, err |-> err]

\* fault: the set of names already used on the path is never consulted
checkNothing(existing, param) == FALSE

\* existingParams.check: TRUE when param is already in the set (the code panics)
check(existing, param) == param \in existing

\* uint8 decrement (numParams--)
Dec8(x) == (x + 255) % 256

\* countParams: the number of ':' and '*' bytes, counted up to 255
RECURSIVE countFrom(_, _, _)
countFrom(path, i, n) ==
    IF i < Len(path) /\ n < 255
    THEN countFrom(path, i + 1,
                   IF At(path, i) = paramByte \/ At(path, i) = wildByte THEN n + 1 ELSE n)
    ELSE n

countParams(path) == countFrom(path, 0, 0)

\* fault: the name of a wildcard may hold a second ':' or '*'
RECURSIVE wildcardEndAnyName(_, _)
wildcardEndAnyName(path, end) ==
    IF end < Len(path) /\ At(path, end) # slashByte
    THEN wildcardEndAnyName(path, end + 1)
    ELSE end

\* insertChild, lines 46-57: the end of the wildcard that starts before `end`
\* (a '/' or the end of the path), or -1 when the name holds a second ':' or '*'
RECURSIVE wildcardEnd(_, _)
wildcardEnd(path, end) ==
    IF end < Len(path) /\ At(path, end) # slashByte
    THEN IF At(path, end) = paramByte \/ At(path, end) = wildByte
         THEN -1
         ELSE wildcardEnd(path, end + 1)
    ELSE end

\* fault: a wildcard is inserted whether or not the node has children
conflictsNever(n) == FALSE

\* insertChild, lines 59-63: the node already has children, which a wildcard
\* inserted here would make unreachable
conflictsWithChildren(n) == Len(n.children) > 0

\* addRoute, lines 265-267: a handler is already attached to the terminal node
alreadyRegistered(n) == n.handler # 0

\* insertChild, lines 97-130: the catch-all case at path[i] = '*'
insertCatchAll(n, i, offset, numParams, path, handler, end) ==
    IF end # Len(path) \/ numParams > 1 THEN Res(n, ErrAfterStar)
    ELSE IF Len(n.path) > 0 /\ At(n.path, Len(n.path) - 1) = slashByte
    THEN Res(n, ErrCatchAllRoot)
    ELSE IF i - 1 < 0 THEN Res(n, ErrRuntime)
    ELSE IF At(path, i - 1) # slashByte THEN Res(n, ErrNoSlash)
    ELSE IF offset > i - 1 THEN Res(n, ErrRuntime)
    ELSE LET second == [NewNode EXCEPT !.path = From(path, i - 1), !.nType = matchesAny,
                                       !.handler = handler, !.priority = 1]
             first == [NewNode EXCEPT !.wildChild = TRUE, !.nType = matchesAny,
                                      !.priority = 1, !.children = <<second>>]
         IN Res([n EXCEPT !.path = Slice(path, offset, i - 1),
                          !.children = <<first>>,
                          !.indices = At(path, i - 1)], ErrNone)

\* insertChild: the loop from position i on node n, then lines 134-140
RECURSIVE insertChildFrom(_, _, _, _, _, _, _)
insertChildFrom(n, i, offset, numParams, existing, path, handler) ==
    IF numParams = 0
    THEN IF n.nType = hasParams /\ check(existing, From(path, offset))
         THEN Res(n, ErrDuplicateParam)
         ELSE Res([n EXCEPT !.path = From(path, offset), !.handler = handler], ErrNone)
    ELSE IF i >= Len(path) THEN Res(n, ErrRuntime)
    ELSE LET c == At(path, i) IN
    IF c # paramByte /\ c # wildByte
    THEN insertChildFrom(n, i + 1, offset, numParams, existing, path, handler)
    ELSE LET end == wildcardEnd(path, i + 1) IN
    IF end < 0 THEN Res(n, ErrOneWildcard)
    ELSE IF conflictsWithChildren(n) THEN Res(n, ErrWildcardChildren)
    ELSE IF c = wildByte
    THEN insertCatchAll(n, i, offset, numParams, path, handler, end)
    ELSE IF end - i < 2 THEN Res(n, ErrEmptyName)
    ELSE LET off1 == IF i > 0 THEN i ELSE offset
             n1 == IF i > 0 THEN [n EXCEPT !.path = Slice(path, offset, i)] ELSE n
             child == [NewNode EXCEPT !.nType = hasParams, !.priority = 1]
         IN IF end < Len(path)
            THEN IF check(existing, Slice(path, off1, end))
                 THEN Res([n1 EXCEPT !.children = <<child>>, !.wildChild = TRUE],
                          ErrDuplicateParam)
                 ELSE LET r == insertChildFrom([NewNode EXCEPT !.priority = 1], i + 1, end,
                                               Dec8(numParams),
                                               existing \cup {Slice(path, off1, end)},
                                               path, handler)
                      IN Res([n1 EXCEPT !.wildChild = TRUE,
                                        !.children =
                                            <<[child EXCEPT !.path = Slice(path, off1, end),
                                                            !.children = <<r.n>>]>>],
                             r.err)
            ELSE LET r == insertChildFrom(child, i + 1, off1, Dec8(numParams), existing,
                                          path, handler)
                 IN Res([n1 EXCEPT !.wildChild = TRUE, !.children = <<r.n>>], r.err)

\* fault: the child made for a wildcard is left a static node
insertChildUntyped(n, numParams, existing, path, handler) ==
    LET Plain(r) == IF r.n.wildChild
                    THEN Res([r.n EXCEPT !.children[1].nType = static], r.err)
                    ELSE r
    IN Plain(insertChildFrom(n, 0, 0, numParams, existing, path, handler))

insertChild(n, numParams, existing, path, handler) ==
    insertChildFrom(n, 0, 0, numParams, existing, path, handler)

\* incrementChildPriority, lines 148-153: the position the child at pos moves to
\* fault: the child also passes siblings of the same priority
RECURSIVE moveToFrontPastEqual(_, _, _)
moveToFrontPastEqual(children, newPos, prio) ==
    IF newPos > 0 /\ children[newPos].priority <= prio
    THEN moveToFrontPastEqual(children, newPos - 1, prio)
    ELSE newPos

RECURSIVE moveToFront(_, _, _)
moveToFront(children, newPos, prio) ==
    IF newPos > 0 /\ children[newPos].priority < prio
    THEN moveToFront(children, newPos - 1, prio)
    ELSE newPos

\* fault: the children are reordered and the index bytes are left as they were
incrementChildPriorityStaleIndex(n, pos) ==
    LET Moved(prio, newPos) ==
            [n |-> [n EXCEPT
                      !.children =
                          [k \in 1..Len(n.children) |->
                              IF k - 1 < newPos \/ k - 1 > pos THEN n.children[k]
                              ELSE IF k - 1 = newPos
                              THEN [n.children[pos + 1] EXCEPT !.priority = prio]
                              ELSE n.children[k - 1]]],
             pos |-> newPos]
        Raised(prio) == Moved(prio, moveToFront(n.children, pos, prio))
    IN Raised(n.children[pos + 1].priority + 1)

\* incrementChildPriority: [n, pos] with the node reordered and the child's new position
incrementChildPriority(n, pos) ==
    LET Moved(prio, newPos) ==
            [n |-> [n EXCEPT
                      !.children =
                          [k \in 1..Len(n.children) |->
                              IF k - 1 < newPos \/ k - 1 > pos THEN n.children[k]
                              ELSE IF k - 1 = newPos
                              THEN [n.children[pos + 1] EXCEPT !.priority = prio]
                              ELSE n.children[k - 1]],
                      !.indices =
                          IF newPos # pos
                          THEN Slice(n.indices, 0, newPos) \o Slice(n.indices, pos, pos + 1)
                               \o Slice(n.indices, newPos, pos) \o From(n.indices, pos + 1)
                          ELSE n.indices],
             pos |-> newPos]
        Raised(prio) == Moved(prio, moveToFront(n.children, pos, prio))
    IN Raised(n.children[pos + 1].priority + 1)

\* addRoute, lines 191-195: the length of the longest common prefix
RECURSIVE commonPrefix(_, _, _)
commonPrefix(path, npath, i) ==
    IF i < Min(Len(path), Len(npath)) /\ At(path, i) = At(npath, i)
    THEN commonPrefix(path, npath, i + 1)
    ELSE i

\* fault: the split leaves the wildcard flag on the upper node
splitEdgeKeepFlag(n, path, i) ==
    LET child == [NewNode EXCEPT !.path = From(n.path, i), !.wildChild = n.wildChild,
                                 !.indices = n.indices, !.children = n.children,
                                 !.handler = n.handler, !.priority = n.priority - 1]
    IN [n EXCEPT !.children = <<child>>, !.indices = At(n.path, i),
                 !.path = Slice(path, 0, i), !.handler = 0]

\* fault: the split indexes the lower node by the first byte of the upper node
splitEdgeFirstByte(n, path, i) ==
    LET child == [NewNode EXCEPT !.path = From(n.path, i), !.wildChild = n.wildChild,
                                 !.indices = n.indices, !.children = n.children,
                                 !.handler = n.handler, !.priority = n.priority - 1]
    IN [n EXCEPT !.children = <<child>>, !.indices = At(n.path, 0),
                 !.path = Slice(path, 0, i), !.handler = 0, !.wildChild = FALSE]

\* fault: the lower node of a split counts the route being registered
splitEdgeFullPriority(n, path, i) ==
    LET child == [NewNode EXCEPT !.path = From(n.path, i), !.wildChild = n.wildChild,
                                 !.indices = n.indices, !.children = n.children,
                                 !.handler = n.handler, !.priority = n.priority]
    IN [n EXCEPT !.children = <<child>>, !.indices = At(n.path, i),
                 !.path = Slice(path, 0, i), !.handler = 0, !.wildChild = FALSE]

\* addRoute, lines 198-213: split the edge of n at i
splitEdge(n, path, i) ==
    LET child == [NewNode EXCEPT !.path = From(n.path, i), !.wildChild = n.wildChild,
                                 !.indices = n.indices, !.children = n.children,
                                 !.handler = n.handler, !.priority = n.priority - 1]
    IN [n EXCEPT !.children = <<child>>, !.indices = At(n.path, i),
                 !.path = Slice(path, 0, i), !.handler = 0, !.wildChild = FALSE]

\* fault: a longer name that begins with the existing name passes
wildcardMatchesPrefix(npath, path) ==
    Len(path) >= Len(npath) /\ npath = Slice(path, 0, Len(npath))

\* addRoute, lines 224-229: the new segment is the existing wildcard, followed by
\* '/' or by the end of the path
wildcardMatches(npath, path) ==
    /\ Len(path) >= Len(npath)
    /\ npath = Slice(path, 0, Len(npath))
    /\ (Len(npath) >= Len(path) \/ At(path, Len(npath)) = slashByte)

\* with child k (1-based) of n replaced
WithChild(n, k, child) == [n EXCEPT !.children[k] = child]

\* the outcome r of the step below child k of n, seen from n
Below(n, k, r) == Res(WithChild(n, k, r.n), r.err)

\* addRoute, lines 186-272: the walk from node n0
RECURSIVE walk(_, _, _, _, _)
walk(n0, path0, numParams, existing, handler) ==
    LET \* lines 218-232: n has a wildcard child
        Wild(n, path, child) ==
            IF check(existing, child.path)
            THEN Res(WithChild(n, 1, child), ErrDuplicateParam)
            ELSE IF wildcardMatches(child.path, path)
            THEN Below(n, 1, walk(child, path, Dec8(numParams),
                                  existing \cup {child.path}, handler))
            ELSE Res(WithChild(n, 1, child), ErrWildcardConflict)
        \* lines 243-249: the child with the next byte exists, now at ic.pos
        Indexed(path, ic) ==
            Below(ic.n, ic.pos + 1,
                  walk(ic.n.children[ic.pos + 1], path, numParams, existing, handler))
        \* lines 255-262: insert into the child appended at `last`
        Inserted(path, ic, at) ==
            Below(ic.n, at + 1,
                  insertChild(ic.n.children[at + 1], numParams, existing, path, handler))
        Appended(path, n2, pos, last) ==
            IF pos > last THEN Res(n2, ErrRuntime)
            ELSE LET Placed(ic) == Inserted(path, ic, IF pos = last THEN ic.pos ELSE last)
                 IN Placed(incrementChildPriority(n2, pos))
        Grown(path, n2) == Appended(path, n2, Len(n2.indices) - 1, Len(n2.children) - 1)
        \* lines 216-263: the path goes on below n
        Down(n, path, c) ==
            IF n.wildChild
            THEN Wild(n, path, [n.children[1] EXCEPT !.priority = @ + 1])
            ELSE IF n.nType = hasParams /\ c = slashByte /\ Len(n.children) = 1
            THEN Below(n, 1, walk([n.children[1] EXCEPT !.priority = @ + 1], path,
                                  numParams, existing, handler))
            ELSE IF Index(n.indices, c) >= 0
            THEN IF Index(n.indices, c) >= Len(n.children) THEN Res(n, ErrRuntime)
                 ELSE Indexed(path, incrementChildPriority(n, Index(n.indices, c)))
            ELSE IF c # paramByte /\ c # wildByte
            THEN Grown(path, [n EXCEPT !.indices = @ \o c,
                                       !.children = Append(@, NewNode)])
            ELSE insertChild(n, numParams, existing, path, handler)
        \* lines 216-271, on the node as the split left it
        Split(n, i) ==
            IF i < Len(path0) THEN Down(n, From(path0, i), At(path0, i))
            ELSE IF alreadyRegistered(n) THEN Res(n, ErrDuplicateRoute)
            ELSE Res([n EXCEPT !.handler = handler], ErrNone)
        Common(i) == Split(IF i < Len(n0.path) THEN splitEdge(n0, path0, i) ELSE n0, i)
    IN Common(commonPrefix(path0, n0.path, 0))

\* addRoute: [n, err, lp], lp the number of parameters of the path
addRoute(n, path0, handler) ==
    LET Walked(r, numParams) == [n |-> r.n, err |-> r.err, lp |-> numParams]
        Rooted(r, numParams) ==
            [n |-> IF r.err = ErrNone THEN [r.n EXCEPT !.nType = isRoot] ELSE r.n,
             err |-> r.err, lp |-> numParams]
        Counted(n1, path, numParams) ==
            IF numParams >= 255 THEN [n |-> n1, err |-> ErrTooManyParams, lp |-> 0]
            ELSE IF Len(n.path) > 0 \/ Len(n.children) > 0
            THEN Walked(walk(n1, path, numParams, {}, handler), numParams)
            ELSE Rooted(insertChild(n1, numParams, {}, path, handler), numParams)
        Decoded(u) ==
            IF ~u.ok THEN [n |-> n, err |-> ErrUnescape, lp |-> 0]
            ELSE Counted([n EXCEPT !.priority = @ + 1], u.s, countParams(u.s))
    IN Decoded(QueryUnescape(IF path0 = blank THEN basePath ELSE path0))

\* ------------------------------------------------------------------ find

\* find's result: the handler (0 is nil), whether a buffer was taken from the pool
\* (rv != nil), the parameters written to it, and whether the walk ended in a runtime
\* panic (a slice beyond the buffer's capacity, a child index out of range)
Found(handler, got, params, fault) ==
    [handler |-> handler, got |-> got, params |-> params, fault |-> fault]

\* fault: the parameter takes the rest of the path
paramEndOfPath(path, end) == Len(path)

\* find, lines 306-310: the end of the parameter value (a '/' or the end of the path)
RECURSIVE paramEnd(_, _)
paramEnd(path, end) ==
    IF end < Len(path) /\ At(path, end) # slashByte THEN paramEnd(path, end + 1) ELSE end

\* find: the walk from node n with the buffer state (got, params); cap is the
\* capacity of the buffer the pool hands out
RECURSIVE findFrom(_, _, _, _, _)
findFrom(n, path0, got, params, cap) ==
    IF Len(path0) > Len(n.path)
    THEN IF Slice(path0, 0, Len(n.path)) # n.path THEN Found(0, got, params, FALSE)
         ELSE LET path == From(path0, Len(n.path)) IN
         IF ~n.wildChild
         THEN LET i == Index(n.indices, At(path, 0)) IN
              IF i < 0 THEN Found(0, got, params, FALSE)
              ELSE IF i >= Len(n.children) THEN Found(0, got, params, TRUE)
              ELSE findFrom(n.children[i + 1], path, got, params, cap)
         ELSE IF Len(n.children) = 0 THEN Found(0, got, params, TRUE)
         ELSE LET child == n.children[1] IN
         IF child.nType = hasParams
         THEN LET end == paramEnd(path, 0)
                  ps == Append(params, [key |-> From(child.path, 1),
                                        value |-> Slice(path, 0, end)])
              IN IF Len(ps) > cap THEN Found(0, TRUE, params, TRUE)
                 ELSE IF end < Len(path)
                 THEN IF Len(child.children) > 0
                      THEN findFrom(child.children[1], From(path, end), TRUE, ps, cap)
                      ELSE Found(0, TRUE, ps, FALSE)
                 ELSE Found(child.handler, TRUE, ps, FALSE)
         ELSE IF child.nType = matchesAny
         THEN LET ps == Append(params, [key |-> WildcardParam, value |-> From(path, 1)])
              IN IF Len(ps) > cap THEN Found(0, TRUE, params, TRUE)
                 ELSE Found(child.handler, TRUE, ps, FALSE)
         ELSE Found(0, got, params, FALSE)
    ELSE IF path0 = n.path
    THEN Found(n.handler, got, params, FALSE)
    ELSE Found(0, got, params, FALSE)

\* fault: the buffer is taken from the pool before the walk starts
findEager(n, path, cap) == findFrom(n, path, TRUE, <<>>, cap)

find(n, path, cap) == findFrom(n, path, FALSE, <<>>, cap)

\* urlParams.Get: the value of the first parameter with the key, or blank
RECURSIVE GetFrom(_, _, _)
GetFrom(params, key, i) ==
    IF i >= Len(params) THEN blank
    ELSE IF params[i + 1].key = key THEN params[i + 1].value
    ELSE GetFrom(params, key, i + 1)

\* fault: the value of the first parameter answers every key
GetFirst(params, key) == IF params = <<>> THEN blank ELSE params[1].value

Get(params, key) == GetFrom(params, key, 0)

\* ------------------------------------------------------------------ the router

\* net/http's method names and status codes
MethodGet == "GET"
MethodPost == "POST"
MethodOptions == "OPTIONS"
StatusMovedPermanently == 301
StatusPermanentRedirect == 308

VARIABLES
    trees,                      \* Mux.trees: method -> root node (no entry: nil)
    mostParams,                 \* Mux.mostParams
    redirectTrailingSlash,      \* Mux.redirectTrailingSlash
    handleMethodNotAllowed,     \* Mux.handleMethodNotAllowed
    automaticallyHandleOPTIONS, \* Mux.automaticallyHandleOPTIONS
    middleware,                 \* Mux.routeGroup.middleware: what Use has appended
    routes,                     \* the registrations that returned: <<[method, pattern, handler]>>
    last,                       \* the last call of handle: its arguments and its panic
    serving,                    \* Serve() was called: registration is over
    resp,                       \* the last request and what serveHTTP did with it
    pool,                       \* Mux.pool: the buffers that Put has put and Get has not taken
    bufs,                       \* the requestVars buffers: their params and formParsed
    reqs                        \* the requests in serveHTTP on concurrent goroutines

vars == <<trees, mostParams, redirectTrailingSlash, handleMethodNotAllowed,
          automaticallyHandleOPTIONS, middleware, routes, last, serving, resp,
          pool, bufs, reqs>>

\* the pool and what is around it
poolVars == <<pool, bufs, reqs>>

NoCall == [method |-> "", prefix |-> "", path |-> "", pattern |-> "", handler |-> 0,
           err |-> ErrNone]
NoResp == [method |-> "", path |-> "", kind |-> "none", handler |-> 0, to |-> "",
           code |-> 0, attached |-> FALSE, params |-> <<>>, allow |-> {},
           wrapped |-> <<>>, gets |-> 0, puts |-> 0]

\* the goroutines that serve requests, and the buffers that exist at one time
MaxInFlight == 2
MaxBufs == 2
Requests == 1..MaxInFlight
Bufs == 1..MaxBufs

\* a buffer that is not allocated
NoBuf == [params |-> <<>>, formParsed |-> FALSE]

\* a goroutine that serves no request and has served none
Idle == [pc |-> "idle", method |-> "", path |-> "", kind |-> "none", handler |-> 0,
         attached |-> FALSE, rv |-> 0, stale |-> FALSE, seen |-> NoBuf, gets |-> 0,
         puts |-> 0]

\* New
Init ==
    /\ trees = <<>>
    /\ mostParams = 0
    /\ redirectTrailingSlash = TRUE
    /\ handleMethodNotAllowed = FALSE
    /\ automaticallyHandleOPTIONS = FALSE
    /\ middleware = <<>>
    /\ routes = <<>>
    /\ last = NoCall
    /\ serving = FALSE
    /\ resp = NoResp
    /\ pool = {}
    /\ bufs = [b \in Bufs |-> NoBuf]
    /\ reqs = [i \in Requests |-> Idle]

\* a registration panicked: trie construction has stopped
Faulted == last.err # ErrNone

\* routeGroup.handle on the group with the given prefix, lines 150-152
doubleSlash(path) == Index(path, "//") # -1

\* fault: the route goes into the tree that was made first, whatever the method
handleOneTree(prefix, method, path, handler) ==
    LET Added(r) ==
            [trees |-> [m \in DOMAIN trees \cup {method} |->
                           IF m = method THEN r.n ELSE trees[m]],
             err |-> r.err,
             mostParams |-> IF r.err = ErrNone /\ r.lp + 1 > mostParams
                            THEN r.lp + 1 ELSE mostParams]
    IN IF doubleSlash(path)
       THEN [trees |-> trees, err |-> ErrDoubleSlash, mostParams |-> mostParams]
       ELSE Added(addRoute(IF routes # <<>> THEN trees[routes[1].method] ELSE NewNode,
                           prefix \o path, handler))

\* fault: mostParams follows the pattern registered last
handleInLastCount(t, mp, prefix, method, path, handler) ==
    LET Added(r) ==
            [trees |-> [m \in DOMAIN t \cup {method} |->
                           IF m = method THEN r.n ELSE t[m]],
             err |-> r.err,
             mostParams |-> IF r.err = ErrNone THEN r.lp + 1 ELSE mp]
    IN IF doubleSlash(path)
       THEN [trees |-> t, err |-> ErrDoubleSlash, mostParams |-> mp]
       ELSE Added(addRoute(IF method \in DOMAIN t THEN t[method] ELSE NewNode,
                           prefix \o path, handler))

\* routeGroup.handle when the router's trees are t and its mostParams is mp: the tree
\* of the method (a new node when there is none), the outcome of addRoute on it, and
\* the new value of mostParams
handleIn(t, mp, prefix, method, path, handler) ==
    LET Added(r) ==
            [trees |-> [m \in DOMAIN t \cup {method} |->
                           IF m = method THEN r.n ELSE t[m]],
             err |-> r.err,
             mostParams |-> IF r.err = ErrNone /\ r.lp + 1 > mp THEN r.lp + 1 ELSE mp]
    IN IF doubleSlash(path)
       THEN [trees |-> t, err |-> ErrDoubleSlash, mostParams |-> mp]
       ELSE Added(addRoute(IF method \in DOMAIN t THEN t[method] ELSE NewNode,
                           prefix \o path, handler))

\* routeGroup.handle on the router as it is
handle(prefix, method, path, handler) ==
    handleIn(trees, mostParams, prefix, method, path, handler)

\* fault: Match registers the handler for the first listed method only
matchFirst(methods, k, t, mp, prefix, path, handler) ==
    IF k > 1 THEN [trees |-> t, mostParams |-> mp, err |-> ErrNone, done |-> k - 1]
    ELSE LET One(r) == [trees |-> r.trees, mostParams |-> r.mostParams, err |-> r.err,
                        done |-> IF r.err = ErrNone THEN Len(methods) ELSE 0]
         IN One(handleIn(t, mp, prefix, methods[1], path, handler))

\* routeGroup.Match from the k-th listed method on: handle for each method in turn
\* until one panics; done is the number of methods that handle accepted
RECURSIVE matchFrom(_, _, _, _, _, _, _)
matchFrom(methods, k, t, mp, prefix, path, handler) ==
    IF k > Len(methods)
    THEN [trees |-> t, mostParams |-> mp, err |-> ErrNone, done |-> Len(methods)]
    ELSE LET Then(r) ==
                 IF r.err # ErrNone
                 THEN [trees |-> r.trees, mostParams |-> r.mostParams, err |-> r.err,
                       done |-> k - 1]
                 ELSE matchFrom(methods, k + 1, r.trees, r.mostParams, prefix, path,
                                handler)
         IN Then(handleIn(t, mp, prefix, methods[k], path, handler))

\* the pattern as addRoute inserts it: prefix and path, blank replaced, unescaped
PatternOf(prefix, path) ==
    QueryUnescape(IF prefix \o path = blank THEN basePath ELSE prefix \o path).s

\* g.Handle(method, path, h) on a group made by Group(prefix); the handler is the
\* number of the call
Register(method, prefix, path) ==
    /\ ~serving
    /\ ~Faulted
    /\ \E r \in {handle(prefix, method, path, Len(routes) + 1)} :
          \E pattern \in {PatternOf(prefix, path)} :
             /\ trees' = r.trees
             /\ mostParams' = r.mostParams
             /\ last' = [method |-> method, prefix |-> prefix, path |-> path,
                         pattern |-> pattern, handler |-> Len(routes) + 1, err |-> r.err]
             /\ routes' = IF r.err = ErrNone
                          THEN Append(routes, [method |-> method, pattern |-> pattern,
                                               handler |-> Len(routes) + 1,
                                               middleware |-> middleware])
                          ELSE routes
    /\ UNCHANGED <<redirectTrailingSlash, handleMethodNotAllowed,
                   automaticallyHandleOPTIONS, middleware, serving, resp>>
    /\ UNCHANGED poolVars

\* g.Match(methods, path, h) on a group made by Group(prefix): one handler, the
\* number of the call, for every listed method; a panic of handle ends the call and
\* the methods listed before it stay registered
Match(methods, prefix, path) ==
    /\ ~serving
    /\ ~Faulted
    /\ \E r \in {matchFrom(methods, 1, trees, mostParams, prefix, path, Len(routes) + 1)} :
          \E pattern \in {PatternOf(prefix, path)} :
             /\ trees' = r.trees
             /\ mostParams' = r.mostParams
             /\ last' = [method |-> methods[IF r.err = ErrNone THEN r.done ELSE r.done + 1],
                         prefix |-> prefix, path |-> path, pattern |-> pattern,
                         handler |-> Len(routes) + 1, err |-> r.err, methods |-> methods]
             /\ routes' = routes \o [k \in 1..r.done |->
                                        [method |-> methods[k], pattern |-> pattern,
                                         handler |-> Len(routes) + 1,
                                         middleware |-> middleware]]
    /\ UNCHANGED <<redirectTrailingSlash, handleMethodNotAllowed,
                   automaticallyHandleOPTIONS, middleware, serving, resp>>
    /\ UNCHANGED poolVars

\* SetRedirectTrailingSlash
SetRedirectTrailingSlash(set) ==
    /\ ~serving
    /\ routes = <<>>
    /\ ~Faulted
    /\ redirectTrailingSlash' = set
    /\ UNCHANGED <<trees, mostParams, handleMethodNotAllowed, automaticallyHandleOPTIONS,
                   middleware, routes, last, serving, resp>>
    /\ UNCHANGED poolVars

\* Mux.Use: routeGroup.Use on the router's own group
Use(m) ==
    /\ ~serving
    /\ ~Faulted
    /\ middleware' = Append(middleware, m)
    /\ UNCHANGED <<trees, mostParams, redirectTrailingSlash, handleMethodNotAllowed,
                   automaticallyHandleOPTIONS, routes, last, serving, resp>>
    /\ UNCHANGED poolVars

\* RegisterMethodNotAllowed, called without middleware
RegisterMethodNotAllowed ==
    /\ ~serving
    /\ ~Faulted
    /\ handleMethodNotAllowed' = TRUE
    /\ UNCHANGED <<trees, mostParams, redirectTrailingSlash, automaticallyHandleOPTIONS,
                   middleware, routes, last, serving, resp>>
    /\ UNCHANGED poolVars

\* RegisterAutomaticOPTIONS, called without middleware
RegisterAutomaticOPTIONS ==
    /\ ~serving
    /\ ~Faulted
    /\ automaticallyHandleOPTIONS' = TRUE
    /\ UNCHANGED <<trees, mostParams, redirectTrailingSlash, handleMethodNotAllowed,
                   middleware, routes, last, serving, resp>>
    /\ UNCHANGED poolVars

\* Serve: the handler is handed to the HTTP server, registration is complete
Serve ==
    /\ ~serving
    /\ ~Faulted
    /\ serving' = TRUE
    /\ UNCHANGED <<trees, mostParams, redirectTrailingSlash, handleMethodNotAllowed,
                   automaticallyHandleOPTIONS, middleware, routes, last, resp>>
    /\ UNCHANGED poolVars

\* ------------------------------------------------------------------ dispatch

\* the value of a byte of the table
ByteOf(c) == IF c = "?" THEN 63 ELSE Index(Printable, c) + 32

\* net/url shouldEscape(c, encodePath): letters, digits, -_.~ and $&+,/:;=@ are kept
Unescaped == "abcdefghijklmnopqrstuvwxyzABCDEFGHIJKLMNOPQRSTUVWXYZ0123456789-_.~$&+,/:;=@"
shouldEscape(c) == Index(Unescaped, c) < 0

RECURSIVE escapeFrom(_, _)
escapeFrom(s, i) ==
    IF i >= Len(s) THEN ""
    ELSE LET c == At(s, i) IN
         (IF shouldEscape(c)
          THEN "%" \o At(HexUpper, ByteOf(c) \div 16) \o At(HexUpper, ByteOf(c) % 16)
          ELSE c) \o escapeFrom(s, i + 1)

\* r.URL.String() of a request URL that has only a path (URL.EscapedPath)
URLString(path) == IF path = "*" THEN "*" ELSE escapeFrom(path, 0)

\* serveHTTP, lines 205-209: the trailing slash removed, or added
toggleSlash(lc) ==
    IF From(lc, Len(lc) - 1) = basePath THEN Slice(lc, 0, Len(lc) - 1) ELSE lc \o basePath

\* net/url unescape(s, encodePath), by which the server sets r.URL.Path from the
\* request target: [ok, s]; '+' stays as it is
RECURSIVE PathUnescapeFrom(_, _)
PathUnescapeFrom(s, i) ==
    IF i >= Len(s) THEN [ok |-> TRUE, s |-> ""]
    ELSE LET c == At(s, i) IN
         IF c = "%"
         THEN IF i + 2 >= Len(s) \/ Unhex(At(s, i + 1)) < 0 \/ Unhex(At(s, i + 2)) < 0
              THEN [ok |-> FALSE, s |-> ""]
              ELSE LET r == PathUnescapeFrom(s, i + 3) IN
                   [ok |-> r.ok,
                    s |-> CharOfByte(Unhex(At(s, i + 1)) * 16 + Unhex(At(s, i + 2))) \o r.s]
         ELSE LET r == PathUnescapeFrom(s, i + 1) IN [ok |-> r.ok, s |-> c \o r.s]

PathUnescape(s) == PathUnescapeFrom(s, 0)

\* the end of the path element that starts at i: the next '/' or the end
RECURSIVE elemEnd(_, _)
elemEnd(p, i) == IF i >= Len(p) \/ At(p, i) = "/" THEN i ELSE elemEnd(p, i + 1)

\* path.Clean from position i on, out being the elements kept so far: empty
\* elements and "." are dropped, ".." drops the element before it (at the root
\* of a rooted path it is dropped itself)
RECURSIVE cleanFrom(_, _, _, _)
cleanFrom(p, i, rooted, out) ==
    IF i >= Len(p) THEN out
    ELSE IF At(p, i) = "/" THEN cleanFrom(p, i + 1, rooted, out)
    ELSE LET Kept(elem) ==
                 IF elem = "." THEN out
                 ELSE IF elem = ".."
                 THEN IF Len(out) > 0 /\ out[Len(out)] # ".."
                      THEN SubSeq(out, 1, Len(out) - 1)
                      ELSE IF rooted THEN out ELSE Append(out, elem)
                 ELSE Append(out, elem)
         IN cleanFrom(p, elemEnd(p, i), rooted, Kept(Slice(p, i, elemEnd(p, i))))

RECURSIVE joinElems(_, _)
joinElems(out, k) ==
    IF k > Len(out) THEN ""
    ELSE out[k] \o (IF k < Len(out) THEN "/" ELSE "") \o joinElems(out, k + 1)

\* path.Clean
Clean(p) ==
    LET Joined(rooted, out) ==
            IF ~rooted /\ out = <<>> THEN "."
            ELSE (IF rooted THEN "/" ELSE "") \o joinElems(out, 1)
    IN IF p = "" THEN "."
       ELSE Joined(At(p, 0) = "/", cleanFrom(p, 0, At(p, 0) = "/", <<>>))

\* path.Split(oldpath), the directory: up to and with the last '/'
RECURSIVE dirOf(_, _)
dirOf(p, i) == IF i = 0 THEN "" ELSE IF At(p, i - 1) = "/" THEN Slice(p, 0, i) ELSE dirOf(p, i - 1)

\* http.Redirect(w, r, to, code), called by the handler of Mux.redirect (line 175):
\* the Location header it writes for a target `to` that is an escaped path without
\* a query (what r.URL.String() gives serveHTTP), oldpath being r.URL.Path. A
\* target that begins with "//" parses with a host and is written as it is; any
\* other is made absolute against the directory of oldpath and cleaned with
\* path.Clean, a trailing '/' preserved.
redirectLocation(to, oldpath) ==
    LET Cleaned(url) ==
            IF At(url, Len(url) - 1) = "/" /\ At(Clean(url), Len(Clean(url)) - 1) # "/"
            THEN Clean(url) \o "/"
            ELSE Clean(url)
        Old == IF oldpath = "" THEN "/" ELSE oldpath
    IN IF Len(to) >= 2 /\ Slice(to, 0, 2) = "//" THEN to
       ELSE IF to = "" \/ At(to, 0) # "/" THEN Cleaned(dirOf(Old, Len(Old)) \o to)
       ELSE Cleaned(to)

\* fault: every redirect carries the status of a GET redirect
redirectCodeOfGet(method) == StatusMovedPermanently

\* Mux.redirect, lines 170-173
redirectCode(method) ==
    IF method # MethodGet THEN StatusPermanentRedirect ELSE StatusMovedPermanently

\* fault: the redirect handler is returned as it is
redirectBare == <<>>

\* Mux.redirect, lines 179-181: the middleware the redirect handler is wrapped in,
\* outermost first
redirectMiddleware == middleware

\* the middleware around the handler that serveHTTP invokes: a route's handler was
\* wrapped by handle, the redirect handler by redirect, and the handlers of New are
\* bare
wrappedIn(kind, handler) ==
    IF kind = "route" THEN routes[handler].middleware
    ELSE IF kind = "redirect" THEN redirectMiddleware
    ELSE <<>>

\* 1 when the lookup took a buffer from the pool
Took(f) == IF f.got THEN 1 ELSE 0

\* the response of serveHTTP: which handler ran (kind), for a route its handler, for
\* a redirect the arguments of http.Redirect, the parameters the handler can see, the
\* Allow header, the middleware that ran around the handler, and the buffers taken from and put back into the pool
Response(method, path, kind, handler, to, code, rv, allow, gets) ==
    [method |-> method, path |-> path, kind |-> kind, handler |-> handler, to |-> to,
     code |-> code, attached |-> rv.got, params |-> IF rv.got THEN rv.params ELSE <<>>,
     allow |-> allow, wrapped |-> wrappedIn(kind, handler), gets |-> gets,
     puts |-> Took(rv)]

\* fault: the scan for the 405 answer skips the OPTIONS tree as the scan for the
\* OPTIONS answer does
serveFallbackSkipOptions(method, path, rv, gets) ==
    LET others == IF automaticallyHandleOPTIONS /\ method = MethodOptions /\ path # "*"
                  THEN DOMAIN trees \ {method, MethodOptions}
                  ELSE IF automaticallyHandleOPTIONS /\ method = MethodOptions
                  THEN {}
                  ELSE IF handleMethodNotAllowed
                  THEN DOMAIN trees \ {method, MethodOptions}
                  ELSE {}
        scans == [m \in others |-> find(trees[m], path, mostParams)]
        taken == Cardinality({m \in others : scans[m].got})
        matching == {m \in others : scans[m].handler # 0}
    IN IF automaticallyHandleOPTIONS /\ method = MethodOptions
       THEN Response(method, path, "options", 0, "", 0, rv,
                     (IF path = "*" THEN DOMAIN trees \ {MethodOptions} ELSE matching)
                         \cup {MethodOptions},
                     gets + taken)
       ELSE IF handleMethodNotAllowed /\ matching # {}
       THEN Response(method, path, "405", 0, "", 0, rv, matching, gets + taken)
       ELSE Response(method, path, "404", 0, "", 0, rv, matching, gets + taken)

\* fault: the OPTIONS answer lists every method that has a tree, whatever the path
serveFallbackAllowAll(method, path, rv, gets) ==
    LET others == IF automaticallyHandleOPTIONS /\ method = MethodOptions
                  THEN {}
                  ELSE IF handleMethodNotAllowed THEN DOMAIN trees \ {method}
                  ELSE {}
        scans == [m \in others |-> find(trees[m], path, mostParams)]
        taken == Cardinality({m \in others : scans[m].got})
        matching == {m \in others : scans[m].handler # 0}
    IN IF automaticallyHandleOPTIONS /\ method = MethodOptions
       THEN Response(method, path, "options", 0, "", 0, rv,
                     (DOMAIN trees \ {MethodOptions}) \cup {MethodOptions}, gets + taken)
       ELSE IF handleMethodNotAllowed /\ matching # {}
       THEN Response(method, path, "405", 0, "", 0, rv, matching, gets + taken)
       ELSE Response(method, path, "404", 0, "", 0, rv, matching, gets + taken)

\* fault: the OPTIONS handler answers only when another method allows the path
serveFallbackOptionsIfAllowed(method, path, rv, gets) ==
    LET others == IF automaticallyHandleOPTIONS /\ method = MethodOptions /\ path # "*"
                  THEN DOMAIN trees \ {method, MethodOptions}
                  ELSE IF automaticallyHandleOPTIONS /\ method = MethodOptions
                  THEN {}
                  ELSE IF handleMethodNotAllowed THEN DOMAIN trees \ {method}
                  ELSE {}
        scans == [m \in others |-> find(trees[m], path, mostParams)]
        taken == Cardinality({m \in others : scans[m].got})
        matching == {m \in others : scans[m].handler # 0}
    IN IF \E m \in others : scans[m].fault
       THEN Response(method, path, "panic", 0, "", 0, rv, {}, gets + taken)
       ELSE IF automaticallyHandleOPTIONS /\ method = MethodOptions
               /\ (path = "*" \/ matching # {})
       THEN Response(method, path, "options", 0, "", 0, rv,
                     (IF path = "*" THEN DOMAIN trees \ {MethodOptions} ELSE matching)
                         \cup {MethodOptions},
                     gets + taken)
       ELSE IF handleMethodNotAllowed /\ matching # {}
       THEN Response(method, path, "405", 0, "", 0, rv, matching, gets + taken)
       ELSE Response(method, path, "404", 0, "", 0, rv, matching, gets + taken)

\* serveHTTP, lines 223-279: no route and no redirect
serveFallback(method, path, rv, gets) ==
    LET others == IF automaticallyHandleOPTIONS /\ method = MethodOptions /\ path # "*"
                  THEN DOMAIN trees \ {method, MethodOptions}
                  ELSE IF automaticallyHandleOPTIONS /\ method = MethodOptions
                  THEN {}
                  ELSE IF handleMethodNotAllowed THEN DOMAIN trees \ {method}
                  ELSE {}
        scans == [m \in others |-> find(trees[m], path, mostParams)]
        taken == Cardinality({m \in others : scans[m].got})
        matching == {m \in others : scans[m].handler # 0}
    IN IF \E m \in others : scans[m].fault
       THEN Response(method, path, "panic", 0, "", 0, rv, {}, gets + taken)
       ELSE IF automaticallyHandleOPTIONS /\ method = MethodOptions
       THEN Response(method, path, "options", 0, "", 0, rv,
                     (IF path = "*" THEN DOMAIN trees \ {MethodOptions} ELSE matching)
                         \cup {MethodOptions},
                     gets + taken)
       ELSE IF handleMethodNotAllowed /\ matching # {}
       THEN Response(method, path, "405", 0, "", 0, rv, matching, gets + taken)
       ELSE Response(method, path, "404", 0, "", 0, rv, matching, gets + taken)

\* fault: the two retries in the other order, the slash toggled before the
\* lowercased path is tried as it is
serveRecoverSlashFirst(method, path, tree, rv) ==
    LET lc == ToLower(path)
        f3 == find(tree, toggleSlash(lc), mostParams)
        f2 == find(tree, lc, mostParams)
        g2 == IF lc # path THEN Took(f2) ELSE 0
    IN IF f3.handler # 0
       THEN Response(method, path, "redirect", 0, URLString(toggleSlash(lc)),
                     redirectCode(method), rv, {}, Took(rv) + Took(f3))
       ELSE IF lc # path /\ f2.handler # 0
       THEN Response(method, path, "redirect", 0, URLString(lc), redirectCode(method),
                     rv, {}, Took(rv) + Took(f3) + g2)
       ELSE serveFallback(method, path, rv, Took(rv) + Took(f3) + g2)

\* serveHTTP, lines 193-217: the exact path did not match in the method's tree
serveRecover(method, path, tree, rv) ==
    LET lc == ToLower(path)
        f2 == find(tree, lc, mostParams)
        g2 == IF lc # path THEN Took(f2) ELSE 0
        f3 == find(tree, toggleSlash(lc), mostParams)
    IN IF lc # path /\ f2.fault
       THEN Response(method, path, "panic", 0, "", 0, rv, {}, Took(rv) + g2)
       ELSE IF lc # path /\ f2.handler # 0
       THEN Response(method, path, "redirect", 0, URLString(lc), redirectCode(method),
                     rv, {}, Took(rv) + g2)
       ELSE IF f3.fault
       THEN Response(method, path, "panic", 0, "", 0, rv, {}, Took(rv) + g2 + Took(f3))
       ELSE IF f3.handler # 0
       THEN Response(method, path, "redirect", 0, URLString(toggleSlash(lc)),
                     redirectCode(method), rv, {}, Took(rv) + g2 + Took(f3))
       ELSE serveFallback(method, path, rv, Took(rv) + g2 + Took(f3))

\* fault: an OPTIONS request is answered automatically before the redirect is tried
serveHTTPOptionsFirst(method, path) ==
    IF method \in DOMAIN trees
    THEN LET rv == find(trees[method], path, mostParams) IN
         IF rv.handler # 0
         THEN Response(method, path, "route", rv.handler, "", 0, rv, {}, Took(rv))
         ELSE IF redirectTrailingSlash /\ Len(path) > 1
                 /\ ~(automaticallyHandleOPTIONS /\ method = MethodOptions)
         THEN serveRecover(method, path, trees[method], rv)
         ELSE serveFallback(method, path, rv, Took(rv))
    ELSE serveFallback(method, path, Found(0, FALSE, <<>>, FALSE), 0)

\* fault: the recovery is tried whether or not the redirect is enabled
serveHTTPAlwaysRecover(method, path) ==
    IF method \in DOMAIN trees
    THEN LET rv == find(trees[method], path, mostParams) IN
         IF rv.fault THEN Response(method, path, "panic", 0, "", 0, rv, {}, Took(rv))
         ELSE IF rv.handler # 0
         THEN Response(method, path, "route", rv.handler, "", 0, rv, {}, Took(rv))
         ELSE IF Len(path) > 1
         THEN serveRecover(method, path, trees[method], rv)
         ELSE serveFallback(method, path, rv, Took(rv))
    ELSE serveFallback(method, path, Found(0, FALSE, <<>>, FALSE), 0)

\* serveHTTP
serveHTTP(method, path) ==
    IF method \in DOMAIN trees
    THEN LET rv == find(trees[method], path, mostParams) IN
         IF rv.fault THEN Response(method, path, "panic", 0, "", 0, rv, {}, Took(rv))
         ELSE IF rv.handler # 0
         THEN Response(method, path, "route", rv.handler, "", 0, rv, {}, Took(rv))
         ELSE IF redirectTrailingSlash /\ Len(path) > 1
         THEN serveRecover(method, path, trees[method], rv)
         ELSE serveFallback(method, path, rv, Took(rv))
    ELSE serveFallback(method, path, Found(0, FALSE, <<>>, FALSE), 0)

\* one request, served to the end by a handler that returns, on a server that serves
\* one request at a time: the buffers are counted in the response, not told apart
ServeHTTP(method, path) ==
    /\ serving
    /\ resp' = serveHTTP(method, path)
    /\ UNCHANGED <<trees, mostParams, redirectTrailingSlash, handleMethodNotAllowed,
                   automaticallyHandleOPTIONS, middleware, routes, last, serving>>
    /\ UNCHANGED poolVars

\* the response is written: the server is ready for the next request
Done ==
    /\ serving
    /\ resp # NoResp
    /\ resp' = NoResp
    /\ UNCHANGED <<trees, mostParams, redirectTrailingSlash, handleMethodNotAllowed,
                   automaticallyHandleOPTIONS, middleware, routes, last, serving>>
    /\ UNCHANGED poolVars

\* ------------------------------------------------------------------ the pool

\* the requests whose handler is running
InFlight == {i \in Requests : reqs[i].pc = "handler"}

\* the buffers attached to the requests in flight
Held == {reqs[i].rv : i \in InFlight} \ {0}

\* pool.New, lines 90-96: a buffer with mostParams zero entries
poolNew == [params |-> [k \in 1..mostParams |-> [key |-> blank, value |-> blank]],
            formParsed |-> FALSE]

\* pool.Get: a buffer that was put, with what it held then, or a new one; a buffer
\* that nothing refers to is collected and its place is used again
Fresh == LET free == Bufs \ (pool \cup Held)
         IN IF free = {} THEN {} ELSE {CHOOSE b \in free : \A c \in free : b <= c}
Content(b) == IF b \in pool THEN bufs[b] ELSE poolNew

\* fault: the parameters are written behind those the buffer holds
acquireDirty(buf, params) == [buf EXCEPT !.params = buf.params \o params]

\* find, lines 312-321 and 339-348: the buffer is cut to no parameters, then the
\* parameters of the walk are written to it
acquire(buf, params) == [buf EXCEPT !.params = params]

\* serveHTTP, lines 267-271: the flag is cleared and the buffer goes into the context
attach(buf) == [buf EXCEPT !.formParsed = FALSE]

\* fault: the buffer is back in the pool while the handler runs
whileHandlingPooled(free, taken) == free

\* serveHTTP, lines 267-279: what Get took stays out of the pool while h(w, r) runs
whileHandling(free, taken) == free \ taken

\* fault: every lookup counts itself in the priority of the root it starts from
lookedCounting(t) == [m \in DOMAIN t |-> [t[m] EXCEPT !.priority = @ + 1]]

\* find, lines 282-364: the walk assigns to its own n, path, handler and rv and to
\* the buffer, and to no field of a node: the trees after the lookups of a request
looked(t) == t

\* the buffers the pool hands to n calls of Get whose results are dropped: any of
\* those in the pool, the rest new
Dropped(free, n) == {L \in SUBSET free : Cardinality(L) <= n}

\* serveHTTP up to the call of the handler, on a goroutine i that is in no handler:
\* b is the buffer of the first lookup (0: none), L the pooled buffers that the other lookups took; stale
\* records that b came out of the pool with the flag set and more parameters than
\* the request binds, seen what the handler is given
Dispatch(method, path) ==
    /\ serving
    /\ \E r \in {serveHTTP(method, path)} :
          /\ r.kind # "panic"
          /\ \E i \in Requests \ InFlight :
             \E b \in (IF r.attached THEN pool \cup Fresh ELSE {0}) :
             \E L \in Dropped(pool \ {b}, r.gets - (IF r.attached THEN 1 ELSE 0)) :
                /\ pool' = whileHandling(pool, {b} \cup L)
                /\ bufs' = [c \in Bufs |->
                               IF c = b THEN attach(acquire(Content(b), r.params))
                               ELSE IF c \in L THEN NoBuf
                               ELSE bufs[c]]
                /\ reqs' = [reqs EXCEPT ![i] =
                               [pc |-> "handler", method |-> method, path |-> path,
                                kind |-> r.kind, handler |-> r.handler,
                                attached |-> r.attached, rv |-> b,
                                stale |-> b \in pool /\ bufs[b].formParsed
                                          /\ Len(bufs[b].params) > Len(r.params),
                                seen |-> IF b = 0 THEN NoBuf
                                         ELSE attach(acquire(Content(b), r.params)),
                                gets |-> r.gets, puts |-> 0]]
    /\ trees' = looked(trees)
    /\ UNCHANGED <<mostParams, redirectTrailingSlash, handleMethodNotAllowed,
                   automaticallyHandleOPTIONS, middleware, routes, last, serving, resp>>

\* RequestVars (helpers.go 44-51) in the handler of request i: the requestVars of the
\* request's context, or new(requestVars) when the context holds none
RequestVars(i) == IF reqs[i].attached THEN bufs[reqs[i].rv] ELSE NoBuf

\* requestVars.URLParam (request_vars.go 17-19)
URLParam(rv, pname) == Get(rv.params, pname)

\* the route handler of request i calls ParseForm or ParseMultipartForm (helpers.go
\* 57-95); the handlers that New installs and the redirect handler do not
ParseForm(i) ==
    /\ reqs[i].pc = "handler"
    /\ reqs[i].kind = "route"
    /\ reqs[i].rv # 0
    /\ bufs' = [bufs EXCEPT ![reqs[i].rv].formParsed = TRUE]
    /\ UNCHANGED <<trees, mostParams, redirectTrailingSlash, handleMethodNotAllowed,
                   automaticallyHandleOPTIONS, middleware, routes, last, serving, resp,
                   pool, reqs>>

\* serveHTTP, lines 274-278: h(w, r) returns and the buffer is put
Return(i) ==
    /\ reqs[i].pc = "handler"
    /\ pool' = pool \cup ({reqs[i].rv} \ {0})
    /\ reqs' = [reqs EXCEPT ![i] = [Idle EXCEPT !.pc = "returned",
                                                !.attached = reqs[i].attached,
                                                !.gets = reqs[i].gets,
                                                !.puts = IF reqs[i].rv # 0 THEN 1 ELSE 0]]
    /\ UNCHANGED <<trees, mostParams, redirectTrailingSlash, handleMethodNotAllowed,
                   automaticallyHandleOPTIONS, middleware, routes, last, serving, resp,
                   bufs>>

\* serveHTTP, line 274: h(w, r) panics; the panic leaves serveHTTP, which defers
\* nothing, and lines 276-278 do not run
Panic(i) ==
    /\ reqs[i].pc = "handler"
    /\ bufs' = [c \in Bufs |-> IF c = reqs[i].rv /\ c \notin pool THEN NoBuf ELSE bufs[c]]
    /\ reqs' = [reqs EXCEPT ![i] = [Idle EXCEPT !.pc = "panicked",
                                                !.attached = reqs[i].attached,
                                                !.gets = reqs[i].gets]]
    /\ UNCHANGED <<trees, mostParams, redirectTrailingSlash, handleMethodNotAllowed,
                   automaticallyHandleOPTIONS, middleware, routes, last, serving, resp,
                   pool>>

\* ------------------------------------------------------------------ inputs

\* the number of registrations a run makes before it serves (Spec), or in all (SpecTrie)
MaxRoutes == 2
MaxTrieRoutes == 3

Methods == {MethodGet, MethodPost}

Route(prefix, path) == [prefix |-> prefix, path |-> path]

\* the calls of handle on the way to a served router: the group's prefix and the path
ServeInputs ==
    { Route("", p) : p \in
        { "/", "/a", "/a/", "/A", "/a/b", "/a/:x", "/:x", "/:x/b", "/a:x",
          "/*", "/a/*", "/a/*/b", "/a/*/:x", "/a/*/*" } }

\* the calls of handle that build one trie
RouteInputs ==
    ServeInputs
    \cup { Route("", p) : p \in
        { "", "/b", "/ab", "/:y", "/:xy", "/:x/:y", "/:x/:x", "/:x/b/:x", "/:", "/:x:y",
          "/a/*x", "/a/*b/c", "/a*", "/:x/*", "/%61", "/a%2F%2Fb", "/%zz", "/a//b" } }
    \cup { Route("/a/", "/b"), Route("/a", "/b"), Route("/a/", ":x") }

\* the request paths
RequestPaths ==
    { "", "*", "/", "/a", "/a/", "/A", "/A/", "/b", "/b/", "/ab", "/a/b", "/a/b/",
      "/a/B", "/a/B/", "/a//b", "/a/*/b", "/a/*/c", "/c/b", "/c/b/", "/C/b/", "/c/d" }

Next ==
    \/ \E m \in Methods, r \in ServeInputs :
          Len(routes) < MaxRoutes /\ Register(m, r.prefix, r.path)
    \/ \E set \in BOOLEAN : SetRedirectTrailingSlash(set)
    \/ Serve
    \/ \E m \in Methods, p \in RequestPaths : resp = NoResp /\ ServeHTTP(m, p)
    \/ Done

Spec == Init /\ [][Next]_vars

\* the router with its fallbacks and its middleware: the methods, the patterns and
\* the request paths
MaxMuxRoutes == 2
MaxMiddleware == 1
MuxMethods == {MethodGet, MethodPost, MethodOptions}
MuxInputs == {"/a", "/a/", "/:x"}
MuxPaths == {"*", "/a", "/a/", "/A", "/b"}

NextMux ==
    \/ \E m \in MuxMethods, p \in MuxInputs :
          Len(routes) < MaxMuxRoutes /\ Register(m, "", p)
    \/ Len(middleware) < MaxMiddleware /\ Use(Len(middleware) + 1)
    \/ RegisterMethodNotAllowed
    \/ RegisterAutomaticOPTIONS
    \/ \E set \in BOOLEAN : SetRedirectTrailingSlash(set)
    \/ Serve
    \/ \E m \in MuxMethods, p \in MuxPaths : resp = NoResp /\ ServeHTTP(m, p)
    \/ Done

SpecMux == Init /\ [][NextMux]_vars

\* concurrent requests on a router with parameters: the patterns and the paths
MaxPoolRoutes == 2
PoolInputs == {"/:x", "/:x/:y"}
PoolPaths == {"/", "/b", "/b/c"}

NextPool ==
    \/ \E p \in PoolInputs : Len(routes) < MaxPoolRoutes /\ Register(MethodGet, "", p)
    \/ Serve
    \/ \E p \in PoolPaths : Dispatch(MethodGet, p)
    \/ \E i \in Requests : ParseForm(i)
    \/ \E i \in Requests : Return(i)
    \/ \E i \in Requests : Panic(i)

SpecPool == Init /\ [][NextPool]_vars

\* static patterns in every order: the patterns, no two of which go into the trie as
\* the same pattern, and the paths looked up
MaxStaticRoutes == 4
StaticInputs == {"/", "/a", "/ab", "/a/b", "/b", "/bc", "/bd", "/b+", "/%63"}
StaticPaths ==
    {PatternOf("", p) : p \in StaticInputs}
    \cup {"", "/a/", "/a/bc", "/abc", "/bcd", "/b+", "/%63", "/d", "/B"}

NextStatic ==
    \E p \in StaticInputs :
        /\ Len(routes) < MaxStaticRoutes
        /\ \A k \in 1..Len(routes) : routes[k].pattern # PatternOf("", p)
        /\ Register(MethodGet, "", p)

SpecStatic == Init /\ [][NextStatic]_vars

\* Match: two methods, lists with one method, both orders and a method listed twice
MaxMatchRoutes == 3
MatchMethods == {MethodGet, MethodPost}
MatchLists == {<<MethodGet>>, <<MethodPost>>, <<MethodGet, MethodPost>>,
               <<MethodPost, MethodGet>>, <<MethodGet, MethodGet>>}
MatchInputs == {"/a", "/:x", "/a/:x"}
MatchPaths == {"/a", "/b", "/a/b"}

NextMatch ==
    \/ \E m \in MatchMethods, p \in MatchInputs :
          Len(routes) < MaxMatchRoutes /\ Register(m, "", p)
    \/ \E ms \in MatchLists, p \in MatchInputs :
          Len(routes) < MaxMatchRoutes /\ Match(ms, "", p)
    \/ Serve
    \/ \E m \in MatchMethods, p \in MatchPaths : resp = NoResp /\ ServeHTTP(m, p)
    \/ Done

SpecMatch == Init /\ [][NextMatch]_vars

\* patterns with malformed dynamic tokens, on tries that hold well-formed ones
MaxMarkerRoutes == 3
MarkerInputs ==
    {"/a", "/a/", "/:x", "/:x/b", "/a/:x", "/a/*", "/a:x",
     "/:", "/:/b", "/a/:", "/a:", "/:x/:", "/a/:/b",
     "/:x:y", "/:x*", "/*:x", "/a/*:x", "/a/:x*", "/a:x:y", "/a/**", "/:x/b:y*"}

NextMarker ==
    \E p \in MarkerInputs : Len(routes) < MaxMarkerRoutes /\ Register(MethodGet, "", p)

SpecMarker == Init /\ [][NextMarker]_vars

\* request paths with an empty segment, on tries with parameters
MaxSegmentRoutes == 2
SegmentInputs == {"/a", "/:x", "/:x/b", "/a/:x", "/a/:x/b", "/:x/:y"}
SegmentPaths ==
    {"/", "//", "//b", "/a", "/a/", "/a//", "/a//b", "/a/c", "/c/b", "/c//",
     "/A", "/a/C", "/c/b/", "/a/./", "/A/."}

NextSegment ==
    \/ \E p \in SegmentInputs : Len(routes) < MaxSegmentRoutes /\ Register(MethodGet, "", p)
    \/ Serve
    \/ \E p \in SegmentPaths : resp = NoResp /\ ServeHTTP(MethodGet, p)
    \/ Done

SpecSegment == Init /\ [][NextSegment]_vars

\* registration into one method's trie, nothing else
NextTrie ==
    \E r \in RouteInputs : Len(routes) < MaxTrieRoutes /\ Register(MethodGet, r.prefix, r.path)

SpecTrie == Init /\ [][NextTrie]_vars

\* ------------------------------------------------------------------ the pattern language

\* the routes registered for a method
RoutesOf(method) == {routes[k] : k \in {j \in 1..Len(routes) : routes[j].method = method}}

\* the end of the segment that holds position i: the next '/' or the end
RECURSIVE segEnd(_, _)
segEnd(s, i) == IF i < Len(s) /\ At(s, i) # "/" THEN segEnd(s, i + 1) ELSE i

HasMarker(s) == Index(s, ":") >= 0 \/ Index(s, "*") >= 0

\* a concrete path q is matched by pattern p: a literal byte matches itself, ':name'
\* a non-empty run of non-'/' bytes, a trailing '/*' the rest of the path
RECURSIVE Matches(_, _)
Matches(p, q) ==
    IF p = "" THEN q = ""
    ELSE IF p = "/*" THEN At(q, 0) = "/"
    ELSE IF At(p, 0) = ":"
    THEN segEnd(q, 0) > 0 /\ Matches(From(p, segEnd(p, 0)), From(q, segEnd(q, 0)))
    ELSE At(q, 0) = At(p, 0) /\ Matches(From(p, 1), From(q, 1))

\* the values the parameters of p take on a path p matches: <<[key, value]>> in order
RECURSIVE Bindings(_, _)
Bindings(p, q) ==
    IF p = "" \/ p = "/*" THEN <<>>
    ELSE IF At(p, 0) = ":"
    THEN <<[key |-> Slice(p, 1, segEnd(p, 0)), value |-> Slice(q, 0, segEnd(q, 0))]>>
         \o Bindings(From(p, segEnd(p, 0)), From(q, segEnd(q, 0)))
    ELSE Bindings(From(p, 1), From(q, 1))

\* p has a literal segment at i and q a named parameter, after the same prefix
LiteralAgainstParam(p, q, i) ==
    /\ i < Len(p) /\ i < Len(q)
    /\ Slice(p, 0, i) = Slice(q, 0, i)
    /\ At(p, i - 1) = "/"
    /\ segEnd(p, i) > i
    /\ ~HasMarker(Slice(p, i, segEnd(p, i)))
    /\ At(q, i) = ":"

Clash(p, q) == \E i \in 1..Len(p) : LiteralAgainstParam(p, q, i)

\* ------------------------------------------------------------------ claims

\* C1: for one method, a pattern with a literal segment and a pattern with a named
\* parameter at the same position after the same prefix are never both registered:
\* the registration of the second one fails, in either order.
C1_StaticParamConflict ==
    /\ \A r1 \in RoutesOf(MethodGet), r2 \in RoutesOf(MethodGet) :
          ~Clash(r1.pattern, r2.pattern)
    /\ \A r \in RoutesOf(MethodGet) :
          (r.handler # last.handler
           /\ (Clash(r.pattern, last.pattern) \/ Clash(last.pattern, r.pattern)))
          => Faulted

\* C1 happens: /a/b is registered and the registration of /a/:x has just failed
C1_Witness ==
    /\ Faulted
    /\ \E r \in RoutesOf(MethodGet) : Clash(r.pattern, last.pattern)

\* the concrete paths the claims about matching are checked on
ConcretePaths == RequestPaths

\* C2: after successful registrations into one method's trie, no concrete path is
\* matched by two distinct registered patterns.
C2_NoAmbiguity ==
    \A q \in ConcretePaths :
        \A r1 \in RoutesOf(MethodGet), r2 \in RoutesOf(MethodGet) :
            r1.pattern # r2.pattern => ~(Matches(r1.pattern, q) /\ Matches(r2.pattern, q))

\* q is p with every ':name' replaced by a non-empty value without '/'
RECURSIVE Instance(_, _)
Instance(p, q) ==
    IF p = "" THEN q = ""
    ELSE IF At(p, 0) = ":"
    THEN segEnd(q, 0) > 0 /\ Instance(From(p, segEnd(p, 0)), From(q, segEnd(q, 0)))
    ELSE At(q, 0) = At(p, 0) /\ Instance(From(p, 1), From(q, 1))

\* serveHTTP has answered a request
Answered == resp.kind # "none"

\* C3: a request whose path is a registered pattern P with its parameters replaced by
\* values invokes P's handler, and URLParam(name) is the value put in for name.
C3_ParamCapture ==
    Answered =>
        \A r \in RoutesOf(resp.method) :
            (Index(r.pattern, ":") >= 0 /\ Instance(r.pattern, resp.path))
            => /\ resp.kind = "route"
               /\ resp.handler = r.handler
               /\ \A k \in 1..Len(Bindings(r.pattern, resp.path)) :
                     Get(resp.params, Bindings(r.pattern, resp.path)[k].key)
                         = Bindings(r.pattern, resp.path)[k].value

\* p ends in "/*"
EndsInCatchAll(p) == Len(p) >= 2 /\ From(p, Len(p) - 2) = "/*"

\* C4: a request whose path is the prefix of a registered pattern ending in '/*',
\* then '/', then any remainder R invokes that route's handler, and the value under
\* WildcardParam is R.
C4_CatchAllCapture ==
    Answered =>
        \A r \in RoutesOf(resp.method) :
            EndsInCatchAll(r.pattern) =>
                \A k \in 0..(Len(resp.path) - 1) :
                    (Instance(Slice(r.pattern, 0, Len(r.pattern) - 2), Slice(resp.path, 0, k))
                     /\ At(resp.path, k) = "/")
                    => /\ resp.kind = "route"
                       /\ resp.handler = r.handler
                       /\ Get(resp.params, WildcardParam) = From(resp.path, k + 1)

\* the ':name' tokens of a pattern, in order
RECURSIVE Names(_)
Names(p) ==
    IF p = "" THEN <<>>
    ELSE IF At(p, 0) = ":"
    THEN <<Slice(p, 0, segEnd(p, 0))>> \o Names(From(p, segEnd(p, 0)))
    ELSE Names(From(p, 1))

Distinct(seq) == \A i, j \in 1..Len(seq) : i # j => seq[i] # seq[j]

\* no parameter node below n repeats a name of seen or of a parameter node above it
RECURSIVE NamesUniqueBelow(_, _)
NamesUniqueBelow(n, seen) ==
    /\ n.nType = hasParams => n.path \notin seen
    /\ \A k \in 1..Len(n.children) :
          NamesUniqueBelow(n.children[k],
                           IF n.nType = hasParams THEN seen \cup {n.path} ELSE seen)

\* C5: a pattern that uses a parameter name twice is rejected whatever the trie
\* holds, so in every trie built without a fault the parameter names are unique along
\* every path from the root.
C5_UniqueParamNames ==
    /\ \A r \in RoutesOf(MethodGet) : Distinct(Names(r.pattern))
    /\ (~Faulted /\ MethodGet \in DOMAIN trees) => NamesUniqueBelow(trees[MethodGet], {})

\* C5 happens: a pattern that repeats a name was rejected while a prefix of it,
\* with the first use of the name, is registered
C5_Witness ==
    /\ last.err = ErrDuplicateParam
    /\ ~Distinct(Names(last.pattern))
    /\ \E r \in RoutesOf(MethodGet) :
          /\ Len(r.pattern) < Len(last.pattern)
          /\ r.pattern = Slice(last.pattern, 0, Len(r.pattern))
          /\ Names(r.pattern) # <<>>

\* handle was called with a pattern that an earlier call registered for the method
DupCall ==
    /\ QueryUnescape(last.prefix \o last.path).ok
    /\ \E r \in RoutesOf(last.method) :
          r.handler # last.handler /\ r.pattern = last.pattern

\* the handler of the first registration of the pattern of the last call
FirstHandler ==
    (CHOOSE r \in RoutesOf(last.method) :
        r.pattern = last.pattern
        /\ \A r2 \in RoutesOf(last.method) :
              r2.pattern = last.pattern => r.handler <= r2.handler).handler

\* C6: registering a pattern whose decoded form is already registered for the method
\* fails as a duplicate registration, and the path keeps resolving to the handler
\* registered first.
C6_DuplicateRegistration ==
    DupCall =>
        /\ last.err = ErrDuplicateRoute
        /\ ~HasMarker(last.pattern) =>
              find(trees[last.method], last.pattern, mostParams).handler = FirstHandler

\* every '*' of p is the last byte of p and follows a '/'
StarPlaced(p) ==
    \A i \in 0..(Len(p) - 1) :
        At(p, i) = "*" => (i = Len(p) - 1 /\ i > 0 /\ At(p, i - 1) = "/")

\* handle has been called
Called == last.handler # 0

\* C7: a pattern with a '*' that is not its final character, or not right after a
\* '/', is rejected whatever was registered before.
C7_CatchAllPlacement ==
    (Called /\ ~StarPlaced(last.pattern)) => Faulted

\* C8: a registration whose pattern, as it goes into the trie, contains '//' fails.
C8_NoDoubleSlash ==
    (Called /\ Index(last.pattern, "//") >= 0) => Faulted

\* q with a trailing '/' removed, or added when it has none
Toggled(q) ==
    IF Len(q) > 0 /\ At(q, Len(q) - 1) = "/" THEN Slice(q, 0, Len(q) - 1) ELSE q \o "/"

NoUpperCase(q) == \A i \in 0..(Len(q) - 1) : Index(UpperCase, At(q, i)) < 0

\* a request was answered whose path does not resolve, while the path with the
\* trailing slash toggled is an instance of a pattern registered for the method
SlashOff ==
    /\ Answered
    /\ redirectTrailingSlash
    /\ resp.method \in DOMAIN trees
    /\ find(trees[resp.method], resp.path, mostParams).handler = 0
    /\ \E r \in RoutesOf(resp.method) : Matches(r.pattern, Toggled(resp.path))

\* the answer is the redirect to the path with the slash toggled
SlashRedirect ==
    /\ resp.kind = "redirect"
    /\ resp.to = URLString(Toggled(resp.path))
    /\ resp.code = (IF resp.method = MethodGet THEN 301 ELSE 308)
    /\ resp.handler = 0

Resolves(method, path) ==
    method \in DOMAIN trees /\ find(trees[method], path, mostParams).handler # 0

\* the trailing-slash/case recovery applies: the lowercased path, when it differs, or
\* the lowercased path with its slash toggled resolves in the trie of the method
Recovers(method, path) ==
    /\ redirectTrailingSlash
    /\ method \in DOMAIN trees
    /\ Len(path) > 1
    /\ \/ ToLower(path) # path /\ Resolves(method, ToLower(path))
       \/ Resolves(method, Toggled(ToLower(path)))

\* the methods other than the request's in whose trie the path resolves
OtherMethods(method, path) == {m \in DOMAIN trees \ {method} : Resolves(m, path)}

\* the request is left to the fallbacks and is not an automatic OPTIONS answer
Unrouted ==
    /\ Answered
    /\ ~Resolves(resp.method, resp.path)
    /\ ~Recovers(resp.method, resp.path)
    /\ ~(automaticallyHandleOPTIONS /\ resp.method = MethodOptions)

\* C11: a request without a match or a redirect in the trie of its method, which is
\* not an automatic OPTIONS answer, whose path resolves in the trie of another
\* method, is answered by the 405 handler with an Allow header of exactly the other
\* methods in whose trie the path resolves when method-not-allowed handling is on,
\* and by the not-found handler when it is off.
C11_MethodNotAllowed ==
    (Unrouted /\ OtherMethods(resp.method, resp.path) # {})
    => IF handleMethodNotAllowed
       THEN resp.kind = "405" /\ resp.allow = OtherMethods(resp.method, resp.path)
       ELSE resp.kind = "404"

\* C11 happens: a GET was answered 405 with two methods allowed, OPTIONS among them
C11_Witness ==
    /\ Unrouted
    /\ handleMethodNotAllowed
    /\ resp.method = MethodGet
    /\ resp.kind = "405"
    /\ resp.allow = {MethodPost, MethodOptions}

\* C11 happens with the handling off: the same request falls to not-found
C11_WitnessOff ==
    /\ Unrouted
    /\ ~handleMethodNotAllowed
    /\ OtherMethods(resp.method, resp.path) # {}
    /\ resp.kind = "404"

\* an OPTIONS request was answered for which automatic OPTIONS is on and no OPTIONS
\* route or redirect applies
AutoOptions ==
    /\ Answered
    /\ automaticallyHandleOPTIONS
    /\ resp.method = MethodOptions
    /\ ~Resolves(MethodOptions, resp.path)
    /\ ~Recovers(MethodOptions, resp.path)

\* the answer is the OPTIONS handler's, no route handler ran, and Allow is the given
\* methods plus OPTIONS
OptionsAnswer(methods) ==
    /\ resp.kind = "options"
    /\ resp.handler = 0
    /\ resp.allow = methods \cup {MethodOptions}

\* C12 as stated: such a request gets an Allow header of exactly every non-OPTIONS
\* method in whose trie the path resolves, plus OPTIONS, and only the OPTIONS handler
\* is invoked.
C12_AsStated ==
    AutoOptions => OptionsAnswer(OtherMethods(MethodOptions, resp.path))

\* C12: the same for every path but "*"; for "*" the Allow header holds every
\* non-OPTIONS method that has a trie, plus OPTIONS.
C12_AutomaticOptions ==
    AutoOptions
    => IF resp.path = "*"
       THEN OptionsAnswer(DOMAIN trees \ {MethodOptions})
       ELSE OptionsAnswer(OtherMethods(MethodOptions, resp.path))

\* C12 happens: the path resolves for GET and not for POST, which has a trie too
C12_Witness ==
    /\ AutoOptions
    /\ resp.path # "*"
    /\ MethodPost \in DOMAIN trees
    /\ resp.kind = "options"
    /\ resp.allow = {MethodGet, MethodOptions}

\* C12 happens for "*": GET is allowed though "*" does not resolve in its trie
C12_WitnessStar ==
    /\ AutoOptions
    /\ resp.path = "*"
    /\ ~Resolves(MethodGet, resp.path)
    /\ resp.allow = {MethodGet, MethodOptions}

\* the first step of the dispatch order that applies to the request
FirstStep(method, path) ==
    IF Resolves(method, path) THEN "route"
    ELSE IF Recovers(method, path) THEN "redirect"
    ELSE IF automaticallyHandleOPTIONS /\ method = MethodOptions THEN "options"
    ELSE IF handleMethodNotAllowed /\ OtherMethods(method, path) # {} THEN "405"
    ELSE "404"

\* C13: every dispatch invokes the one handler of the first step that applies, in the
\* order exact match in the trie of the method, trailing-slash/case redirect,
\* automatic OPTIONS, method-not-allowed, not-found; a route handler runs only for
\* an exact match, and then it is the handler the lookup returned.
C13_DispatchOrder ==
    Answered
    => /\ resp.kind = FirstStep(resp.method, resp.path)
       /\ resp.handler = IF Resolves(resp.method, resp.path)
                         THEN find(trees[resp.method], resp.path, mostParams).handler
                         ELSE 0

\* C13 happens: an OPTIONS request to which the redirect, automatic OPTIONS and
\* method-not-allowed all apply was redirected
C13_Witness ==
    /\ Answered
    /\ resp.method = MethodOptions
    /\ Recovers(resp.method, resp.path)
    /\ automaticallyHandleOPTIONS
    /\ handleMethodNotAllowed
    /\ OtherMethods(resp.method, resp.path) # {}
    /\ resp.kind = "redirect"

\* ------------------------------------------------------------------ the buffers

\* the requests that serveHTTP has left, by return or by panic
Finished == {i \in Requests : reqs[i].pc \in {"returned", "panicked"}}

\* C14: when serveHTTP is left, by the handler's return or by its panic, the buffer
\* that was attached to the request has been put back into the pool.
C14_PutOnEveryExit ==
    \A i \in Finished : reqs[i].attached => reqs[i].puts = 1

\* C15: when serveHTTP returns, every buffer that a lookup of the request took from
\* the pool has been put back.
C15_EveryBufferPut ==
    \A i \in Requests : reqs[i].pc = "returned" => reqs[i].puts = reqs[i].gets

\* C16: the requests in flight hold different buffers, a buffer that a request in
\* flight holds is not in the pool and holds the parameters that request's handler
\* was given, and a request puts at most one buffer, and only one it took.
C16_NoSharedBuffer ==
    /\ \A i \in InFlight : \A j \in InFlight \ {i} :
          reqs[i].rv # 0 => reqs[i].rv # reqs[j].rv
    /\ \A i \in InFlight :
          reqs[i].rv # 0 => /\ reqs[i].rv \notin pool
                            /\ bufs[reqs[i].rv].params = reqs[i].seen.params
    /\ \A i \in Requests : reqs[i].puts <= 1 /\ reqs[i].puts <= reqs[i].gets
    /\ \A i \in Finished : reqs[i].puts = 1 => reqs[i].pc = "returned"

\* C16 happens: two handlers run with a buffer each, and one of the buffers came
\* out of the pool, where an earlier request had put it
C16_Witness ==
    \E i \in InFlight : \E j \in InFlight \ {i} :
        /\ reqs[i].rv # 0
        /\ reqs[j].rv # 0
        /\ reqs[i].stale

\* C17: the buffer a handler is given holds the parameters of its own request's
\* lookup and nothing else, and its form-parsed flag is off, whatever the buffer held
\* when it was taken from the pool.
C17_BufferReset ==
    \A i \in InFlight :
        reqs[i].rv # 0
        => /\ reqs[i].seen.params = serveHTTP(reqs[i].method, reqs[i].path).params
           /\ \A k \in 1..Len(reqs[i].seen.params) :
                 Index(reqs[i].path, reqs[i].seen.params[k].value) >= 0
           /\ ~reqs[i].seen.formParsed

\* C17 happens: the buffer came out of the pool with the flag set and with more
\* parameters than the one the request binds
C17_Witness ==
    \E i \in InFlight :
        /\ reqs[i].rv # 0
        /\ reqs[i].stale
        /\ Len(reqs[i].seen.params) = 1

\* ------------------------------------------------------------------ the middleware

\* C18 as stated: no middleware registered on the router with Use runs for a
\* redirected request.
C18_AsStated ==
    (Answered /\ resp.kind = "redirect") => resp.wrapped = <<>>

\* C18: the redirect handler of a redirected request runs inside every middleware
\* that Use has registered on the router by then, the first registered outermost,
\* whatever middleware the routes were registered with.
C18_RedirectMiddleware ==
    (Answered /\ resp.kind = "redirect") => resp.wrapped = middleware

\* C18 happens: a request was redirected inside a middleware that was registered
\* after the only route, which runs without it
C18_Witness ==
    /\ Answered
    /\ resp.kind = "redirect"
    /\ resp.wrapped # <<>>
    /\ Len(routes) = 1
    /\ routes[1].middleware = <<>>

\* ------------------------------------------------------------------ registration order

\* the handler registered for the path as a pattern of the method, or 0
HandlerOf(method, path) ==
    IF \E r \in RoutesOf(method) : r.pattern = path
    THEN (CHOOSE r \in RoutesOf(method) : r.pattern = path).handler
    ELSE 0

\* C19: whatever the order in which distinct static patterns were registered for a
\* method, every registration succeeds, each registered pattern resolves to its own
\* handler, every other path resolves to nothing, and no lookup takes a buffer.
C19_OrderIndependent ==
    /\ ~Faulted
    /\ MethodGet \in DOMAIN trees
       => \A q \in StaticPaths :
             /\ find(trees[MethodGet], q, mostParams).handler = HandlerOf(MethodGet, q)
             /\ ~find(trees[MethodGet], q, mostParams).got
             /\ ~find(trees[MethodGet], q, mostParams).fault

\* C19 happens: "/a" was registered first, the patterns below 'b' have raised the
\* priority of 'b', and the children of the root are in the order b, a
C19_Witness ==
    /\ Len(routes) = MaxStaticRoutes
    /\ routes[1].pattern = "/a"
    /\ trees[MethodGet].path = "/"
    /\ Len(trees[MethodGet].indices) >= 2
    /\ At(trees[MethodGet].indices, 0) = "b"
    /\ At(trees[MethodGet].indices, 1) = "a"

\* ------------------------------------------------------------------ lookups

\* a goroutine has gone through the lookups of a request, up to its handler
Looked == \E i \in Requests : reqs[i].pc # "handler" /\ reqs'[i].pc = "handler"

\* goroutine i got from its lookups what the response r holds
Same(i, r) ==
    /\ reqs[i].kind = r.kind
    /\ reqs[i].handler = r.handler
    /\ reqs[i].seen.params = r.params

\* the request of goroutine i dispatched now would get what it got
Again(i) == Same(i, serveHTTP(reqs[i].method, reqs[i].path))

OwnRoutes(m) == LET Own(r) == r.method = m IN SelectSeq(routes, Own)

\* the trie that the registrations of seq build on their own, and the mostParams
\* they leave (the patterns of MuxInputs are their own decoded form)
RECURSIVE Built(_)
Built(seq) ==
    IF seq = <<>> THEN NewNode
    ELSE addRoute(Built(SubSeq(seq, 1, Len(seq) - 1)), seq[Len(seq)].pattern,
                  seq[Len(seq)].handler).n
RECURSIVE MostOf(_)
MostOf(seq) ==
    IF seq = <<>> THEN 0
    ELSE LET Larger(a, b) == IF a > b THEN a ELSE b
         IN Larger(countParams(seq[Len(seq)].pattern) + 1,
                   MostOf(SubSeq(seq, 1, Len(seq) - 1)))

\* the outcome of a lookup in the trie of the method
LookupIn(m, q) == IF m \in DOMAIN trees THEN find(trees[m], q, mostParams)
                  ELSE Found(0, FALSE, <<>>, FALSE)

\* the registrations for the method of the last call of handle that returned
\* before it
OwnBefore ==
    LET Earlier(r) == r.method = last.method /\ r.handler # last.handler
    IN SelectSeq(routes, Earlier)

\* the outcome of the last call of handle, had the other methods registered nothing
AloneErr ==
    IF doubleSlash(last.path) THEN ErrDoubleSlash
    ELSE addRoute(Built(OwnBefore), last.prefix \o last.path, last.handler).err

\* C21: the trie of a method is the trie that the registrations for that method
\* build without the others, every lookup in it gives what it gives there, and a
\* registration is rejected exactly when it is rejected there, for the same reason:
\* what is registered for other methods changes neither. (Serve and the requests
\* leave the tries and the registrations as they are: the states before Serve
\* have them all.)
C21_MethodsIndependent ==
    ~serving
    => /\ \A m \in DOMAIN trees :
             (Faulted => m # last.method)
             => /\ trees[m] = Built(OwnRoutes(m))
                /\ \A q \in MuxPaths \cup MuxInputs :
                      find(trees[m], q, mostParams)
                          = find(Built(OwnRoutes(m)), q, MostOf(OwnRoutes(m)))
       /\ Called => last.err = AloneErr

\* C21 happens: "/:x" and "/a", which one trie does not take together, are
\* registered for two methods, and "/a" resolves to a handler of its own in each
C21_Witness ==
    /\ Len(routes) = 2
    /\ routes[1].method # routes[2].method
    /\ routes[1].pattern = "/:x"
    /\ routes[2].pattern = "/a"
    /\ LookupIn(routes[1].method, "/a").handler = 1
    /\ LookupIn(routes[2].method, "/a").handler = 2

\* ------------------------------------------------------------------ static lookups

\* the walk of a lookup from node n comes to a node with a wildcard child and
\* moves on to that child, a parameter or a catch-all
RECURSIVE MeetsWildcard(_, _)
MeetsWildcard(n, path) ==
    /\ Len(path) > Len(n.path)
    /\ Slice(path, 0, Len(n.path)) = n.path
    /\ IF n.wildChild THEN n.children # <<>>
       ELSE \E k \in 1..Len(n.children) :
               /\ k <= Len(n.indices)
               /\ At(n.indices, k - 1) = At(path, Len(n.path))
               /\ \A j \in 1..(k - 1) : At(n.indices, j - 1) # At(path, Len(n.path))
               /\ MeetsWildcard(n.children[k], From(path, Len(n.path)))

\* C22: the first lookup of a request takes a buffer from the pool exactly when its
\* walk meets a parameter or catch-all node, and a request served by a route
\* without ':' and '*' has no buffer attached, takes none and puts none.
C22_StaticTakesNoBuffer ==
    (Answered /\ resp.method \in DOMAIN trees)
    => /\ find(trees[resp.method], resp.path, mostParams).got
             = MeetsWildcard(trees[resp.method], resp.path)
       /\ (resp.kind = "route" /\ ~HasMarker(routes[resp.handler].pattern))
          => (~resp.attached /\ resp.gets = 0 /\ resp.puts = 0 /\ resp.params = <<>>)

\* C22 happens: a route without dynamic tokens was served without a buffer from a
\* trie that holds a route with a parameter as well
C22_Witness ==
    /\ Answered
    /\ resp.kind = "route"
    /\ ~HasMarker(routes[resp.handler].pattern)
    /\ \E r \in RoutesOf(resp.method) : Index(r.pattern, ":") >= 0
    /\ resp.gets = 0

\* ------------------------------------------------------------------ RequestVars

ParamNames == {"x", "y", "z"}

\* the names that the route serving request i captures
Captured(i) ==
    IF reqs[i].kind # "route" THEN {}
    ELSE {k \in ParamNames :
             \E j \in 1..Len(Names(routes[reqs[i].handler].pattern)) :
                Names(routes[reqs[i].handler].pattern)[j] = ":" \o k}

\* C23: in a handler, RequestVars of a request without a parameter buffer is the
\* empty value, and URLParam is blank for every name that the request's route does
\* not capture.
C23_RequestVarsUsable ==
    \A i \in InFlight :
       /\ ~reqs[i].attached
          => /\ RequestVars(i) = [params |-> <<>>, formParsed |-> FALSE]
             /\ \A k \in ParamNames : URLParam(RequestVars(i), k) = blank
       /\ (reqs[i].kind = "route" \/ ~reqs[i].attached)
          => \A k \in ParamNames \ Captured(i) : URLParam(RequestVars(i), k) = blank

\* C23 happens: a handler runs without a buffer while the pool holds one that an
\* earlier request filled, and a handler runs on a reused buffer that held more
\* parameters than its route captures
C23_Witness ==
    /\ \E i \in InFlight : ~reqs[i].attached /\ pool # {}
                            /\ \E b \in pool : bufs[b].params # <<>>
    /\ \E i \in InFlight : reqs[i].kind = "route" /\ reqs[i].stale
                            /\ Captured(i) = {"x"}

\* ------------------------------------------------------------------ Match

\* the last call was a call of Match
Matched == "methods" \in DOMAIN last

\* C24: after Match(methods, path, h) has returned, the trie of every listed method
\* holds h for the path and is the trie that the method's own registrations build,
\* and a request with a listed method for the path is dispatched to h.
C24_MatchEveryMethod ==
    /\ (Matched /\ ~Faulted /\ ~serving)
       => \A k \in 1..Len(last.methods) :
             /\ last.methods[k] \in DOMAIN trees
             /\ trees[last.methods[k]] = Built(OwnRoutes(last.methods[k]))
             /\ \A q \in MatchPaths :
                   Instance(last.pattern, q)
                   => find(trees[last.methods[k]], q, mostParams).handler = last.handler
    /\ Answered
       => \A k \in 1..Len(routes) :
             (routes[k].method = resp.method /\ Instance(routes[k].pattern, resp.path))
             => (resp.kind = "route" /\ resp.handler = routes[k].handler)

\* C24 happens: a request is dispatched to the handler that one call of Match
\* registered for two methods, by the method listed second
C24_Witness ==
    /\ Answered
    /\ resp.kind = "route"
    /\ \E j, k \in 1..Len(routes) :
          /\ j < k
          /\ routes[j].handler = routes[k].handler
          /\ routes[j].method # routes[k].method
          /\ resp.method = routes[k].method
          /\ resp.handler = routes[k].handler

\* ------------------------------------------------------------------ the faults

\* C25: a registration that is rejected is rejected by one of the router's own
\* faults, never by an index out of range or another fault of the runtime.
C25_OwnFaultsOnly ==
    (Called /\ Faulted) => last.err # ErrRuntime

\* ------------------------------------------------------------------ the retry and case

\* pattern p matches path o when the case of o's literal bytes is ignored
RECURSIVE Fits(_, _)
Fits(p, o) ==
    IF p = "" THEN o = ""
    ELSE IF p = "/*" THEN At(o, 0) = "/"
    ELSE IF At(p, 0) = ":"
    THEN segEnd(o, 0) > 0 /\ Fits(From(p, segEnd(p, 0)), From(o, segEnd(o, 0)))
    ELSE o # "" /\ ToLower(At(o, 0)) = At(p, 0) /\ Fits(From(p, 1), From(o, 1))

\* path o with the bytes that p's literals match in lower case and the text that
\* p's parameters and catch-all match as it is
RECURSIVE LowerStatic(_, _)
LowerStatic(p, o) ==
    IF p = "" THEN ""
    ELSE IF p = "/*" THEN o
    ELSE IF At(p, 0) = ":"
    THEN Slice(o, 0, segEnd(o, 0)) \o LowerStatic(From(p, segEnd(p, 0)), From(o, segEnd(o, 0)))
    ELSE ToLower(At(o, 0)) \o LowerStatic(From(p, 1), From(o, 1))

\* C26: a redirect of the trailing-slash recovery goes to the request path, or the
\* request path with its slash toggled, with only the bytes matched by the literals
\* of the route lowercased and the text matched by parameters in its original case.
C26_ParamsKeepCase ==
    (Answered /\ resp.kind = "redirect")
    => \E o \in {resp.path, toggleSlash(resp.path)} :
          \E r \in RoutesOf(resp.method) :
             Fits(r.pattern, o) /\ resp.to = URLString(LowerStatic(r.pattern, o))

\* ------------------------------------------------------------------ wildcard conflicts

\* p has a parameter at position i, and q, equal to p before i, goes on there with
\* a segment of another text: another name, a longer or shorter name, or a literal
OtherSegment(p, q, i) ==
    /\ At(p, i) = ":"
    /\ i < Len(q)
    /\ Slice(p, 0, i) = Slice(q, 0, i)
    /\ Slice(q, i, segEnd(q, i)) # Slice(p, i, segEnd(p, i))

WildcardClash(p, q) == \E i \in 0..(Len(p) - 1) : OtherSegment(p, q, i)

\* the faults that report a conflict with what the trie holds
ConflictFaults == {ErrWildcardConflict, ErrWildcardChildren}

\* the pattern of the last call is accepted by an empty trie
AcceptedAlone ==
    ~doubleSlash(last.path) /\ addRoute(NewNode, last.prefix \o last.path, last.handler).err = ErrNone

\* C27: no two registered patterns of one trie differ in the segment at which one
\* of them has a parameter, and a registration that would make two such patterns is
\* rejected as a conflict, whichever of the two comes first (the new pattern being
\* one that an empty trie accepts).
C27_WildcardSegmentIdentical ==
    /\ \A r1 \in RoutesOf(MethodGet), r2 \in RoutesOf(MethodGet) :
          ~WildcardClash(r1.pattern, r2.pattern)
    /\ \A r \in RoutesOf(MethodGet) :
          (r.handler # last.handler /\ AcceptedAlone
           /\ (WildcardClash(r.pattern, last.pattern) \/ WildcardClash(last.pattern, r.pattern)))
          => last.err \in ConflictFaults

\* C27 happens: ':xy' was rejected where the trie holds ':x' and a route below it
C27_Witness ==
    /\ Called
    /\ last.pattern = "/:xy"
    /\ last.err = ErrWildcardConflict
    /\ \E r \in RoutesOf(MethodGet) : r.pattern = "/:x"
    /\ \E r \in RoutesOf(MethodGet) : r.pattern = "/:x/b"

\* ------------------------------------------------------------------ the shape of the trie

\* the nodes of the trie below n, n among them
RECURSIVE Nodes(_)
Nodes(n) == {n} \cup UNION {Nodes(n.children[k]) : k \in 1..Len(n.children)}

\* the trie of GET after registrations that all succeeded
Built28 == ~Faulted /\ MethodGet \in DOMAIN trees

Wildcard(n) == n.nType \in {hasParams, matchesAny}

\* C28: after successful registrations every node whose wildChild flag is set has
\* exactly one child, a parameter node or a catch-all node.
C28_WildChildFlag ==
    Built28
    => \A n \in Nodes(trees[MethodGet]) :
          n.wildChild => (Len(n.children) = 1 /\ Wildcard(n.children[1]))

\* C28 happens: the trie holds a node flagged for a parameter child and a node
\* flagged for a catch-all child, below a node that an edge split made
C28_Witness ==
    /\ Built28
    /\ Len(routes) = 3
    /\ \E n \in Nodes(trees[MethodGet]) :
          n.wildChild /\ Len(n.children) = 1 /\ n.children[1].nType = hasParams
    /\ \E n \in Nodes(trees[MethodGet]) :
          n.wildChild /\ Len(n.children) = 1 /\ n.children[1].nType = matchesAny

\* the children of n that are static nodes, and those that are wildcard nodes
Literals(n) == {k \in 1..Len(n.children) : ~Wildcard(n.children[k])}
Wildcards(n) == {k \in 1..Len(n.children) : Wildcard(n.children[k])}

\* C29 as stated: after successful registrations no node has both a static child
\* and a child that is a parameter or catch-all node.
C29_AsStated ==
    Built28
    => \A n \in Nodes(trees[MethodGet]) : Literals(n) = {} \/ Wildcards(n) = {}

\* C29: after successful registrations no node has both a static child and a
\* parameter child, and no node whose wildChild flag is set has a static child; the
\* only wildcard node beside static children is the first node of a catch-all, which
\* its parent selects by the index byte '/'.
C29_NoLiteralBesideWildcard ==
    Built28
    => \A n \in Nodes(trees[MethodGet]) :
          /\ n.wildChild => Literals(n) = {}
          /\ (Literals(n) # {} /\ Wildcards(n) # {})
             => /\ ~n.wildChild
                /\ Len(n.indices) = Len(n.children)
                /\ \A k \in Wildcards(n) :
                      /\ n.children[k].nType = matchesAny
                      /\ n.children[k].path = ""
                      /\ n.children[k].wildChild
                      /\ At(n.indices, k - 1) = slashByte

\* C29 happens: a node holds a static child beside the first node of a catch-all,
\* and the trie holds a parameter as well
C29_Witness ==
    /\ Built28
    /\ \E n \in Nodes(trees[MethodGet]) : Literals(n) # {} /\ Wildcards(n) # {}
    /\ \E n \in Nodes(trees[MethodGet]) : n.wildChild /\ n.children[1].nType = hasParams

\* n selects its children by index byte: it has no wildcard child to go to and is
\* no parameter node, which goes to its only child
ByIndex(n) == ~n.wildChild /\ n.nType # hasParams

\* C30 as stated: after successful registrations, in every node that selects its
\* children by index byte the index string is as long as the child list and its i-th
\* byte is the first byte of the i-th child's path.
C30_AsStated ==
    Built28
    => \A n \in Nodes(trees[MethodGet]) :
          ByIndex(n)
          => /\ Len(n.indices) = Len(n.children)
             /\ \A k \in 1..Len(n.children) :
                   /\ n.children[k].path # ""
                   /\ At(n.indices, k - 1) = At(n.children[k].path, 0)

\* the first byte of the text below node c: of its path, or, when its path is
\* empty and it has one child, of the text below that child
RECURSIVE FirstByte(_)
FirstByte(c) ==
    IF c.path # "" THEN At(c.path, 0)
    ELSE IF Len(c.children) = 1 THEN FirstByte(c.children[1])
    ELSE ""

\* C30: after successful registrations, in every node that selects its children by
\* index byte the index string is as long as the child list and its i-th byte is the
\* first byte of the i-th child's path; a child with an empty path is one of the
\* nodes made for a catch-all, and its index byte is '/', the first byte of the
\* catch-all's fragment below it.
C30_IndexMatchesChildren ==
    Built28
    => \A n \in Nodes(trees[MethodGet]) :
          ByIndex(n)
          => /\ Len(n.indices) = Len(n.children)
             /\ \A k \in 1..Len(n.children) :
                   /\ At(n.indices, k - 1) = FirstByte(n.children[k])
                   /\ n.children[k].path = ""
                      => /\ At(n.indices, k - 1) = slashByte
                         /\ \E c \in Nodes(n.children[k]) :
                               c.nType = matchesAny /\ At(c.path, 0) = slashByte

\* C30 happens: "/b" was registered first, the split of the root's edge and the
\* priority of the routes below 'a' have put the child for 'a' before the one for 'b'
C30_Witness ==
    /\ Built28
    /\ Len(routes) = 3
    /\ routes[1].pattern = "/b"
    /\ trees[MethodGet].path = "/"
    /\ Len(trees[MethodGet].indices) >= 2
    /\ At(trees[MethodGet].indices, 0) = "a"
    /\ At(trees[MethodGet].indices, 1) = "b"

\* ------------------------------------------------------------------ priorities

\* the children of n are in the order of non-increasing priority
Sorted(n) ==
    \A k \in 1..(Len(n.children) - 1) : n.children[k].priority >= n.children[k + 1].priority

\* seq without its k-th element
Without(seq, k) == SubSeq(seq, 1, k - 1) \o SubSeq(seq, k + 1, Len(seq))

\* r is n after the child at pos (from 0) went to r.pos: it went toward the front,
\* past siblings of strictly lower priority only, and the other children kept their
\* order
MovedForward(n, pos, r) ==
    /\ r.pos <= pos
    /\ r.n.children[r.pos + 1] = [n.children[pos + 1] EXCEPT !.priority = @ + 1]
    /\ \A k \in (r.pos + 1)..pos : n.children[k].priority < r.n.children[r.pos + 1].priority
    /\ Without(r.n.children, r.pos + 1) = Without(n.children, pos + 1)

\* C31: after successful registrations the children of every node are in the order
\* of non-increasing priority, and raising the priority of any child moves that
\* child only toward the front, past siblings of strictly lower priority, and
\* leaves the children ordered.
C31_ChildrenByPriority ==
    Built28
    => \A n \in Nodes(trees[MethodGet]) :
          /\ Sorted(n)
          /\ \A pos \in 0..(Len(n.children) - 1) :
                /\ MovedForward(n, pos, incrementChildPriority(n, pos))
                /\ Sorted(incrementChildPriority(n, pos).n)

\* C31 happens: a child registered after its sibling has passed it, and a node
\* holds two children of the same priority
C31_Witness ==
    /\ Built28
    /\ Len(routes) = 3
    /\ routes[1].pattern = "/b"
    /\ At(trees[MethodGet].indices, 0) = "a"
    /\ \E n \in Nodes(trees[MethodGet]) :
          Len(n.children) >= 2 /\ n.children[1].priority = n.children[2].priority

\* the number of registered patterns of GET that begin with the text full
Through(full) ==
    Cardinality({r \in RoutesOf(MethodGet) :
                    /\ Len(r.pattern) >= Len(full)
                    /\ Slice(r.pattern, 0, Len(full)) = full})

\* the priority of n, whose fragment follows the text prefix, and of every node
\* below it is the number of registered patterns that pass through the node; a
\* node with an empty fragment, made for a catch-all, is passed by the patterns that
\* go on with the first byte of the text below it
RECURSIVE PriorityCounts(_, _)
PriorityCounts(n, prefix) ==
    /\ n.priority = Through(prefix \o (IF n.path = "" THEN FirstByte(n) ELSE n.path))
    /\ \A k \in 1..Len(n.children) : PriorityCounts(n.children[k], prefix \o n.path)

\* a split of n at any place of its fragment, on the way of one more route, gives
\* the lower node the priority that n had before
SplitKeepsCount(n) ==
    \A i \in 1..(Len(n.path) - 1) :
       /\ splitEdge([n EXCEPT !.priority = @ + 1], n.path, i).children[1].priority = n.priority
       /\ splitEdge([n EXCEPT !.priority = @ + 1], n.path, i).priority = n.priority + 1

\* C32: after successful registrations the priority of every node is the number of
\* registered routes of the method whose pattern passes through the node, and a
\* split gives the lower node the count of the routes registered before.
C32_PriorityCountsRoutes ==
    Built28
    => /\ PriorityCounts(trees[MethodGet], "")
       /\ \A n \in Nodes(trees[MethodGet]) : SplitKeepsCount(n)

\* C32 happens: three routes, a split at the root, and a node below the root that
\* two of the routes pass through
C32_Witness ==
    /\ Built28
    /\ Len(routes) = 3
    /\ trees[MethodGet].priority = 3
    /\ trees[MethodGet].handler = 0
    /\ \E k \in 1..Len(trees[MethodGet].children) :
          /\ trees[MethodGet].children[k].priority = 2
          /\ trees[MethodGet].children[k].children # <<>>
    /\ \E k \in 1..Len(trees[MethodGet].children) :
          trees[MethodGet].children[k].priority = 1

\* ------------------------------------------------------------------ parameter values

\* the captured values of named parameters, without the catch-all's
Named(params) == LET IsNamed(b) == b.key # WildcardParam IN SelectSeq(params, IsNamed)

\* v is the bytes of path from some position up to the next '/' or the end
SegmentOf(v, path) ==
    \E pos \in 0..Len(path) : v = Slice(path, pos, segEnd(path, pos))

\* C33: the value that a lookup captures for a named parameter holds no '/' and is
\* the bytes of the request path from a position up to the next '/' or the end; when
\* the lookup resolves to a route, the values are those between the literals of the
\* route's pattern, from each parameter's position to the next '/' or the end.
C33_ParamValueInSegment ==
    (Answered /\ resp.attached)
    => /\ \A k \in 1..Len(Named(resp.params)) :
             /\ Index(Named(resp.params)[k].value, "/") < 0
             /\ SegmentOf(Named(resp.params)[k].value, resp.path)
       /\ resp.kind = "route"
          => Named(resp.params) = Bindings(routes[resp.handler].pattern, resp.path)

\* C33 happens: a parameter followed by a literal segment took the bytes up to the '/'
C33_Witness ==
    /\ Answered
    /\ resp.kind = "route"
    /\ routes[resp.handler].pattern = "/:x/b"
    /\ resp.path = "/c/b"
    /\ resp.params = <<[key |-> "x", value |-> "c"]>>

\* ------------------------------------------------------------------ malformed tokens

Marker(c) == c = ":" \/ c = "*"

\* p has a ':' that is followed by '/' or by the end of p
EmptyName(p) ==
    \E i \in 0..(Len(p) - 1) :
       At(p, i) = ":" /\ (i + 1 = Len(p) \/ At(p, i + 1) = "/")

\* p has two markers in one segment
TwoMarkers(p) ==
    \E i \in 0..(Len(p) - 1) :
       /\ Marker(At(p, i))
       /\ \E j \in (i + 1)..(segEnd(p, i) - 1) : Marker(At(p, j))

\* C34: a pattern with a ':' followed by '/' or the end, or with two markers in
\* one segment, is rejected whatever the trie holds, and no such pattern is ever
\* among the registered ones.
C34_MalformedTokenRejected ==
    /\ (Called /\ (EmptyName(last.pattern) \/ TwoMarkers(last.pattern))) => Faulted
    /\ \A r \in RoutesOf(MethodGet) : ~EmptyName(r.pattern) /\ ~TwoMarkers(r.pattern)

\* C34 happens: a pattern with a second marker after the name of a registered
\* parameter was rejected on the trie that holds the parameter
C34_Witness ==
    /\ Called
    /\ Faulted
    /\ last.pattern = "/:x:y"
    /\ \E r \in RoutesOf(MethodGet) : r.pattern = "/:x"
    /\ \E r \in RoutesOf(MethodGet) : r.pattern = "/:x/b"

\* ------------------------------------------------------------------ OPTIONS always answered

\* serveHTTP answers an OPTIONS request
AnswersOptions == resp = NoResp /\ resp' # NoResp /\ resp'.method = MethodOptions

\* C35: with automatic OPTIONS on, every step in which serveHTTP answers an OPTIONS
\* request that no OPTIONS route matches and no redirect recovers ends in the
\* OPTIONS handler, never in the method-not-allowed or the not-found handler, and
\* when the path resolves in no method's trie the Allow header is OPTIONS alone.
C35_OptionsNeverFallsThrough ==
    [][(/\ AnswersOptions
        /\ automaticallyHandleOPTIONS
        /\ ~Resolves(MethodOptions, resp'.path)
        /\ ~Recovers(MethodOptions, resp'.path))
       => /\ resp'.kind = "options"
          /\ resp'.kind \notin {"405", "404"}
          /\ (resp'.path # "*" /\ OtherMethods(MethodOptions, resp'.path) = {})
             => resp'.allow = {MethodOptions}]_vars

\* C35 happens: with method-not-allowed handling on and tries of other methods, an
\* OPTIONS request for a path that resolves nowhere got the OPTIONS handler and an
\* Allow header of OPTIONS alone
C35_Witness ==
    /\ AutoOptions
    /\ handleMethodNotAllowed
    /\ DOMAIN trees \ {MethodOptions} # {}
    /\ resp.path # "*"
    /\ OtherMethods(MethodOptions, resp.path) = {}
    /\ resp.kind = "options"
    /\ resp.allow = {MethodOptions}

\* ------------------------------------------------------------------ when a redirect is issued

\* serveHTTP answers a request with a redirect
Redirects == resp = NoResp /\ resp' # NoResp /\ resp'.kind = "redirect"

\* C36: every step in which serveHTTP answers with a redirect is taken with the
\* trailing-slash redirect enabled, for a path of more than one character, a method
\* that has a trie, and a path that does not resolve in that trie; so with the
\* option off no request is answered with a redirect.
C36_RedirectOnlyWhen ==
    [][Redirects
       => /\ redirectTrailingSlash
          /\ Len(resp'.path) > 1
          /\ resp'.method \in DOMAIN trees
          /\ find(trees[resp'.method], resp'.path, mostParams).handler = 0]_vars

\* C36 happens: a request was redirected
C36_Witness ==
    /\ Answered
    /\ resp.kind = "redirect"
    /\ redirectTrailingSlash
    /\ Len(resp.path) > 1
    /\ ~Resolves(resp.method, resp.path)

\* C36 happens with the option off: a request whose path resolves with the slash
\* toggled fell to not-found
C36_WitnessOff ==
    /\ Answered
    /\ ~redirectTrailingSlash
    /\ Len(resp.path) > 1
    /\ Resolves(resp.method, Toggled(resp.path))
    /\ resp.kind = "404"

\* ------------------------------------------------------------------ the capacity

\* the number of ':' and '*' in p
Tokens(p) == Cardinality({i \in 0..(Len(p) - 1) : Marker(At(p, i))})

\* the largest number of dynamic tokens of a registered pattern
MostTokens ==
    CHOOSE t \in 0..255 :
       /\ \E k \in 1..Len(routes) : Tokens(routes[k].pattern) = t
       /\ \A k \in 1..Len(routes) : Tokens(routes[k].pattern) <= t

\* no request has been dispatched yet
Untouched == \A i \in Requests : reqs[i].pc = "idle"

\* C37: with every registration made before the server starts, mostParams is 1 +
\* the largest number of dynamic tokens of a registered pattern, a buffer that the
\* pool creates has that capacity, no lookup captures more parameters than that,
\* and no buffer ever holds more.
C37_CapacityCoversLookups ==
    /\ routes # <<>> => mostParams = 1 + MostTokens
    /\ Len(poolNew.params) = mostParams
    /\ (serving /\ Untouched /\ MethodGet \in DOMAIN trees)
       => \A q \in PoolPaths :
             /\ ~find(trees[MethodGet], q, mostParams).fault
             /\ Len(find(trees[MethodGet], q, 255).params) <= mostParams
    /\ \A b \in pool \cup Held : Len(bufs[b].params) <= mostParams

\* C37 happens: a lookup has captured two parameters into a buffer of capacity 3
\* that an earlier request used
C37_Witness ==
    /\ mostParams = 3
    /\ \E i \in InFlight :
          /\ reqs[i].rv # 0
          /\ Len(bufs[reqs[i].rv].params) = 2
          /\ \E j \in Requests : reqs[j].pc = "returned" /\ reqs[j].puts = 1


\* ------------------------------------------------------------------ rejected registrations

\* the trie of the method of the last call as it was before the call: the trie
\* that the accepted registrations of the method built
Before == Built(OwnRoutes(last.method))

\* the last call of handle was rejected
Rejected == Called /\ Faulted

\* the outcome of registering the pattern next, in the trie of the method as it is
\* and in the trie as it was before the last call
LaterErr(pattern) ==
    addRoute(IF last.method \in DOMAIN trees THEN trees[last.method] ELSE NewNode,
             pattern, Len(routes) + 1).err
LaterErrBefore(pattern) == addRoute(Before, pattern, Len(routes) + 1).err

\* the patterns of the registrations
LaterPatterns == {PatternOf(r.prefix, r.path) : r \in RouteInputs}

\* C38: a registration that is rejected leaves the trie of the method exactly as
\* it was before the call (no trie where there was none, the same nodes, fragments,
\* index bytes, flags, handlers and priorities where there was one), so that a
\* later registration is accepted or rejected as it would have been without it.
C38_RejectionLeavesTrie ==
    Rejected =>
        /\ (last.method \in DOMAIN trees) = (OwnRoutes(last.method) # <<>>)
        /\ last.method \in DOMAIN trees => trees[last.method] = Before
        /\ \A pattern \in LaterPatterns : LaterErr(pattern) = LaterErrBefore(pattern)

\* ------------------------------------------------------------------ empty segments

\* C39: every value that a lookup resolving to a handler captures for a named
\* parameter is a non-empty string: a path with an empty segment at the position
\* of a parameter does not resolve to the route with the parameter.
C39_ParamValueNonEmpty ==
    (Answered /\ resp.kind = "route") =>
        \A k \in 1..Len(Named(resp.params)) : Named(resp.params)[k].value # ""

\* ------------------------------------------------------------------ following a redirect

\* the path of the request of a client that follows the redirect: the Location
\* that http.Redirect wrote, unescaped by the server
FollowedPath == PathUnescape(redirectLocation(resp.to, resp.path)).s

\* C40: every redirect target resolves directly to a handler in the trie of the
\* request's method: the request of a client that follows the redirect with the
\* same method is served by a route handler, not by another redirect, a 405 or
\* a 404.
C40_RedirectTargetResolves ==
    (Answered /\ resp.kind = "redirect") =>
        /\ Resolves(resp.method, FollowedPath)
        /\ serveHTTP(resp.method, FollowedPath).kind = "route"

====
